---- MODULE Spec2Model ----
(***************************************************************************)
(* A model of the SemiCompiler front end (Xerass/BasicLuaParser):          *)
(*   lexer.py    -> the Lex* definitions and the specification LexSpec     *)
(*   parser.py   -> the Parse* definitions and the specification ParseSpec *)
(*   semantic.py -> the analyzer definitions and the specification SemSpec *)
(* Characters are one-character strings, a source is a sequence of them.   *)
(* Python's 0-based cursors are kept: source[i] of the code is             *)
(* source[i + 1] here.                                                     *)
(***************************************************************************)
EXTENDS Integers, Sequences, FiniteSets, TLC

VARIABLES
    \* lexer.py, class Lexer
    source, tokens, start, current, line, column,
    lexStatus,      \* "idle" | "scanning" | "done" | "raised"
    diagnostics,    \* what the lexer printed, in order
    tokStart,       \* history: self.start when each token was added
    diagStart,      \* history: self.start when each diagnostic was printed
    \* parser.py, class Parser
    ptokens,        \* self.tokens
    pcurrent,       \* self.current
    pstatements,    \* the list statements of Parser.parse
    pstatus,        \* "idle" | "parsing" | "done" | "error"
    perror,         \* the ParseError raised, if any
    presult,        \* the BlockNode returned, if any
    pinput,         \* history: how the token list was drawn
    \* semantic.py, class SemanticAnalyzer
    ast,              \* the tree handed to analyze
    tables,           \* the SymbolTable objects
    symbol_table,     \* self.symbol_table
    current_function, \* self.current_function
    work,             \* the calls of analyze_node yet to be made or to end
    semStatus,        \* "idle" | "analyzing" | "done" | "error"
    semError,         \* the SemanticError raised, if any
    registered,       \* history: the functions declare_function has added
    last,             \* history: the step of analyze_node just made
    visited,          \* history: the nodes analyze_node was called on, in order
    runs              \* history: what earlier runs of analyze on the tree gave

lexVars == <<source, tokens, start, current, line, column, lexStatus,
             diagnostics, tokStart, diagStart>>

parseVars == <<ptokens, pcurrent, pstatements, pstatus, perror, presult, pinput>>

semVars == <<ast, tables, symbol_table, current_function, work, semStatus,
             semError, registered, last, visited, runs>>

\* what a run of analyze is given, and what the runs before it gave
given == <<ast, runs>>

vars == <<lexVars, parseVars, semVars>>

(***************************************************************************)
(* Bounds                                                                  *)
(***************************************************************************)
MaxSrcLen == 4
MaxToks == 3
MaxOperands == 3
MaxStmts == 2
MaxRuns == 2

(***************************************************************************)
(* Characters (lexer.py uses str.isspace, isalpha, isdigit, isalnum)       *)
(***************************************************************************)
NL == "\n"
\* U+00B2 SUPERSCRIPT TWO: str.isdigit() is True, int() and float() reject it
SuperTwo == "^2"

Letters == {"d", "o"}
DecimalDigits == {"1"}
OtherDigits == {SuperTwo}
Spaces == {" ", NL}
Quotes == {"\"", "'"}

Alphabet ==
    Letters \cup DecimalDigits \cup OtherDigits \cup Spaces \cup Quotes
        \cup {"=", "<", "-", ".", "+", "@"}

IsSpace(c) == c \in Spaces
IsAlpha(c) == c \in Letters
IsDigit(c) == c \in DecimalDigits \cup OtherDigits
IsAlnum(c) == IsAlpha(c) \/ IsDigit(c)

(***************************************************************************)
(* Tokens (lexer.py, TokenType and Token)                                  *)
(***************************************************************************)
KeywordType(text) ==
    CASE text = <<"f","u","n","c","t","i","o","n">> -> "FUNCTION"
      [] text = <<"i","f">> -> "IF"
      [] text = <<"t","h","e","n">> -> "THEN"
      [] text = <<"e","l","s","e">> -> "ELSE"
      [] text = <<"e","n","d">> -> "END"
      [] text = <<"w","h","i","l","e">> -> "WHILE"
      [] text = <<"d","o">> -> "DO"
      [] text = <<"r","e","t","u","r","n">> -> "RETURN"
      [] text = <<"l","o","c","a","l">> -> "LOCAL"
      [] OTHER -> "IDENTIFIER"

NoValue == <<"none">>

Token(type, value, ln, col) ==
    [type |-> type, value |-> value, line |-> ln, column |-> col]

(***************************************************************************)
(* Lexer helpers                                                           *)
(***************************************************************************)
NUL == "NUL"

LexIsAtEnd(src, cur) == cur >= Len(src)

LexPeek(src, cur) == IF LexIsAtEnd(src, cur) THEN NUL ELSE src[cur + 1]

LexPeekNext(src, cur) == IF cur + 1 >= Len(src) THEN NUL ELSE src[cur + 2]

\* source[a:b] of the code
Slice(src, a, b) == SubSeq(src, a + 1, b)

\* Lexer.add_token: the token appended for source[st:cur]
AddToken(src, st, cur, ln, col, type, value) ==
    Token(type,
          IF value # NoValue THEN value ELSE Slice(src, st, cur),
          ln,
          col - (cur - st))

\* the loop of Lexer.identifier: the cursor after the last identifier character
RECURSIVE IdentifierEnd(_, _)
IdentifierEnd(src, cur) ==
    IF (IsAlnum(LexPeek(src, cur)) \/ LexPeek(src, cur) = "_")
           /\ ~LexIsAtEnd(src, cur)
    THEN IdentifierEnd(src, cur + 1)
    ELSE cur

\* the loops of Lexer.number: the cursor after a run of isdigit() characters
RECURSIVE DigitsEnd(_, _)
DigitsEnd(src, cur) ==
    IF IsDigit(LexPeek(src, cur)) /\ ~LexIsAtEnd(src, cur)
    THEN DigitsEnd(src, cur + 1)
    ELSE cur

\* Lexer.number: the cursor after the whole literal
NumberEnd(src, cur) ==
    LET c1 == DigitsEnd(src, cur)
    IN  IF LexPeek(src, c1) = "." /\ IsDigit(LexPeekNext(src, c1))
        THEN DigitsEnd(src, c1 + 1)
        ELSE c1

DigitValue(c) == IF c = "1" THEN 1 ELSE 0

RECURSIVE DecimalValue(_)
DecimalValue(text) ==
    IF text = <<>> THEN 0
    ELSE 10 * DecimalValue(SubSeq(text, 1, Len(text) - 1))
             + DigitValue(text[Len(text)])

\* int(value) and float(value) raise ValueError on a character that is not a
\* decimal digit (or the one '.')
Converts(text) == \A i \in 1..Len(text) : text[i] \in DecimalDigits \cup {"."}

HasDot(text) == \E i \in 1..Len(text) : text[i] = "."

\* int(value), or float(value) as <<"float", all digits as a number, 10^k>>
NumberValue(text) ==
    IF HasDot(text)
    THEN LET d == CHOOSE i \in 1..Len(text) : text[i] = "."
         IN  <<"float",
               DecimalValue(SubSeq(text, 1, d - 1) \o SubSeq(text, d + 1, Len(text))),
               10 ^ (Len(text) - d)>>
    ELSE <<"int", DecimalValue(text)>>

\* the loop of Lexer.string: <<current, line, column>> when it ends
RECURSIVE StringScan(_, _, _, _, _)
StringScan(src, cur, ln, col, quote) ==
    IF LexPeek(src, cur) # quote /\ ~LexIsAtEnd(src, cur)
    THEN IF LexPeek(src, cur) = NL
         THEN StringScan(src, cur + 1, ln + 1, 1 + 1, quote)
         ELSE StringScan(src, cur + 1, ln, col + 1, quote)
    ELSE <<cur, ln, col>>

\* the comment loop of Lexer.scan_token: the cursor at the newline or the end
RECURSIVE CommentEnd(_, _)
CommentEnd(src, cur) ==
    IF LexPeek(src, cur) # NL /\ ~LexIsAtEnd(src, cur)
    THEN CommentEnd(src, cur + 1)
    ELSE cur

(***************************************************************************)
(* Lexer actions.  Each is one iteration of the loop of Lexer.tokenize:    *)
(* self.start = self.current, then the whole of Lexer.scan_token.          *)
(***************************************************************************)
Scanning == lexStatus = "scanning" /\ ~LexIsAtEnd(source, current)

\* what a scan does to the cursors when it ends at cursor c, line l, column k
Emit(toks, c, l, k) ==
    /\ tokens' = tokens \o toks
    /\ tokStart' = tokStart \o [i \in 1..Len(toks) |-> current]
    /\ start' = current
    /\ current' = c
    /\ line' = l
    /\ column' = k
    /\ UNCHANGED <<source, parseVars, semVars>>

Unexpected(c) ==
    [kind |-> "Unexpected character", char |-> c, line |-> line,
     column |-> column + 1]

\* scan_token, the isspace() branch
ScanWhitespace ==
    /\ Scanning
    /\ IsSpace(LexPeek(source, current))
    /\ IF LexPeek(source, current) = NL
       THEN Emit(<<>>, current + 1, line + 1, 1)
       ELSE Emit(<<>>, current + 1, line, column + 1)
    /\ UNCHANGED <<lexStatus, diagnostics, diagStart>>

\* scan_token, the isalpha() or '_' branch, and Lexer.identifier
ScanIdentifier ==
    /\ Scanning
    /\ LET c == LexPeek(source, current)
       IN  ~IsSpace(c) /\ (IsAlpha(c) \/ c = "_")
    /\ LET e == IdentifierEnd(source, current + 1)
           k == column + (e - current)
       IN  Emit(<<AddToken(source, current, e, line, k,
                           KeywordType(Slice(source, current, e)), NoValue)>>,
                e, line, k)
    /\ UNCHANGED <<lexStatus, diagnostics, diagStart>>

\* scan_token, the isdigit() branch, and Lexer.number
ScanNumber ==
    /\ Scanning
    /\ LET c == LexPeek(source, current)
       IN  ~IsSpace(c) /\ ~(IsAlpha(c) \/ c = "_") /\ IsDigit(c)
    /\ LET e == NumberEnd(source, current + 1)
           k == column + (e - current)
           text == Slice(source, current, e)
       IN  IF Converts(text)
           THEN /\ Emit(<<AddToken(source, current, e, line, k, "NUMBER",
                                   NumberValue(text))>>, e, line, k)
                /\ UNCHANGED lexStatus
           ELSE \* ValueError leaves Lexer.__init__
                /\ Emit(<<>>, e, line, k)
                /\ lexStatus' = "raised"
    /\ UNCHANGED <<diagnostics, diagStart>>

\* scan_token, the quote branch, and Lexer.string
ScanString ==
    /\ Scanning
    /\ LexPeek(source, current) \in Quotes
    /\ LET r == StringScan(source, current + 1, line, column + 1,
                           LexPeek(source, current))
       IN  IF LexIsAtEnd(source, r[1])
           THEN /\ Emit(<<>>, r[1], r[2], r[3])
                /\ diagnostics' = Append(diagnostics,
                       [kind |-> "Unterminated string", char |-> NUL,
                        line |-> r[2], column |-> 0])
                /\ diagStart' = Append(diagStart, current)
           ELSE /\ Emit(<<AddToken(source, current, r[1] + 1, r[2], r[3] + 1,
                                   "STRING",
                                   Slice(source, current + 1, r[1]))>>,
                        r[1] + 1, r[2], r[3] + 1)
                /\ UNCHANGED <<diagnostics, diagStart>>
    /\ UNCHANGED lexStatus

\* the type of a one- or two-character operator starting with c
OneChar ==
    [c \in {"=", ">", "<", "+", "*", "/", "(", ")", ",", ";"} |->
        CASE c = "=" -> "ASSIGN"
          [] c = ">" -> "GREATER"
          [] c = "<" -> "LESS"
          [] c = "+" -> "PLUS"
          [] c = "*" -> "STAR"
          [] c = "/" -> "SLASH"
          [] c = "(" -> "LPAREN"
          [] c = ")" -> "RPAREN"
          [] c = "," -> "COMMA"
          [] c = ";" -> "SEMICOLON"]

WithEqual ==
    [c \in {"=", ">", "<"} |->
        CASE c = "=" -> "EQUAL_EQUAL"
          [] c = ">" -> "GREATER_EQUAL"
          [] c = "<" -> "LESS_EQUAL"]

\* scan_token, the operator branches that add a token
ScanOperator ==
    /\ Scanning
    /\ LET c == LexPeek(source, current)
           n == LexPeek(source, current + 1)
       IN  \/ /\ c \in DOMAIN WithEqual /\ n = "="
              /\ Emit(<<AddToken(source, current, current + 2, line, column + 2,
                                 WithEqual[c], NoValue)>>,
                      current + 2, line, column + 2)
           \/ /\ c \in DOMAIN OneChar /\ ~(c \in DOMAIN WithEqual /\ n = "=")
              /\ Emit(<<AddToken(source, current, current + 1, line, column + 1,
                                 OneChar[c], NoValue)>>,
                      current + 1, line, column + 1)
           \/ /\ c = "-" /\ n # "-"
              /\ Emit(<<AddToken(source, current, current + 1, line, column + 1,
                                 "MINUS", NoValue)>>,
                      current + 1, line, column + 1)
           \/ /\ c = "." /\ n = "."
              /\ Emit(<<AddToken(source, current, current + 2, line, column + 2,
                                 "DOTDOT", NoValue)>>,
                      current + 2, line, column + 2)
    /\ UNCHANGED <<lexStatus, diagnostics, diagStart>>

\* scan_token, the '--' branch: the comment runs to the newline or the end
ScanComment ==
    /\ Scanning
    /\ LexPeek(source, current) = "-" /\ LexPeek(source, current + 1) = "-"
    /\ LET e == CommentEnd(source, current + 1)
       IN  Emit(<<>>, e, line, column + (e - current))
    /\ UNCHANGED <<lexStatus, diagnostics, diagStart>>

\* scan_token, the lone '.' and the final else: the character is reported
ScanUnexpected ==
    /\ Scanning
    /\ LET c == LexPeek(source, current)
       IN  /\ ~IsSpace(c) /\ ~IsAlpha(c) /\ c # "_" /\ ~IsDigit(c)
           /\ c \notin Quotes
           /\ c \notin DOMAIN OneChar /\ c # "-"
           /\ c = "." => LexPeek(source, current + 1) # "."
           /\ diagnostics' = Append(diagnostics, Unexpected(c))
           /\ diagStart' = Append(diagStart, current)
    /\ Emit(<<>>, current + 1, line, column + 1)
    /\ UNCHANGED lexStatus

\* Lexer.tokenize after its loop: the EOF token
EmitEOF ==
    /\ lexStatus = "scanning"
    /\ LexIsAtEnd(source, current)
    /\ tokens' = Append(tokens, Token("EOF", NoValue, line, column))
    /\ tokStart' = Append(tokStart, current)
    /\ lexStatus' = "done"
    /\ UNCHANGED <<source, start, current, line, column, diagnostics,
                   diagStart, parseVars, semVars>>

LexInit ==
    /\ \E n \in 0..MaxSrcLen : source \in [1..n -> Alphabet]
    /\ tokens = <<>>
    /\ tokStart = <<>>
    /\ start = 0
    /\ current = 0
    /\ line = 1
    /\ column = 1
    /\ lexStatus = "scanning"
    /\ diagnostics = <<>>
    /\ diagStart = <<>>

\* no Lexer object: the state of the lexer under the other specifications
LexIdle ==
    /\ source = <<>>
    /\ tokens = <<>>
    /\ tokStart = <<>>
    /\ start = 0
    /\ current = 0
    /\ line = 1
    /\ column = 1
    /\ lexStatus = "idle"
    /\ diagnostics = <<>>
    /\ diagStart = <<>>

LexNext ==
    \/ ScanWhitespace
    \/ ScanIdentifier
    \/ ScanNumber
    \/ ScanString
    \/ ScanOperator
    \/ ScanComment
    \/ ScanUnexpected
    \/ EmitEOF

(***************************************************************************)
(* AST nodes (syntaxtree.py)                                               *)
(***************************************************************************)
NoNode == [kind |-> "None"]
NumberNode(v) == [kind |-> "Number", value |-> v]
StringNode(v) == [kind |-> "String", value |-> v]
VariableNode(n) == [kind |-> "Variable", name |-> n]
BinaryOpNode(l, o, r) == [kind |-> "BinaryOp", left |-> l, op |-> o, right |-> r]
AssignmentNode(n, v) == [kind |-> "Assignment", variable |-> n, value |-> v]
IfNode(c, t, e) ==
    [kind |-> "If", condition |-> c, then_branch |-> t, else_branch |-> e]
WhileNode(c, b) == [kind |-> "While", condition |-> c, body |-> b]
FunctionNode(n, ps, b) == [kind |-> "Function", name |-> n, params |-> ps, body |-> b]
FunctionCallNode(n, as) == [kind |-> "FunctionCall", name |-> n, arguments |-> as]
ReturnNode(v) == [kind |-> "Return", value |-> v]
BlockNode(ss) == [kind |-> "Block", statements |-> ss]

(***************************************************************************)
(* Parser (parser.py).  Every parse_* method is an operator of the token   *)
(* list and the cursor self.current; it yields the node and the cursor     *)
(* after it, or the ParseError and the cursor where it was raised.         *)
(***************************************************************************)
NoError == [message |-> "", carries |-> {}, line |-> 0, column |-> 0]

POk(node, cur) == [ok |-> TRUE, node |-> node, pos |-> cur, error |-> NoError]

PRaise(err, cur) == [ok |-> FALSE, node |-> NoNode, pos |-> cur, error |-> err]

PPeek(toks, cur) == toks[cur + 1]

\* tokens[current - 1]; Python's tokens[-1] is the last token
PPrevious(toks, cur) == IF cur = 0 THEN toks[Len(toks)] ELSE toks[cur]

PIsAtEnd(toks, cur) == PPeek(toks, cur).type = "EOF"

\* the cursor after Parser.advance
PAdvance(toks, cur) == IF ~PIsAtEnd(toks, cur) THEN cur + 1 ELSE cur

PCheck(toks, cur, type) ==
    IF PIsAtEnd(toks, cur) THEN FALSE ELSE PPeek(toks, cur).type = type

\* Parser.match: whether one of the types is checked (the cursor then advances)
PMatch(toks, cur, types) == \E t \in types : PCheck(toks, cur, t)

PPeekNext(toks, cur) ==
    IF cur + 1 >= Len(toks) THEN Token("EOF", NoValue, 0, 0) ELSE toks[cur + 2]

\* the ParseError of Parser.consume: "<message> at line L, column C"
ConsumeError(toks, cur, message) ==
    [message |-> message, carries |-> {"line", "column"},
     line |-> PPeek(toks, cur).line, column |-> PPeek(toks, cur).column]

\* the ParseError of Parser.parse_primary: "Unexpected token: <tok> at line L"
PrimaryError(toks, cur) ==
    [message |-> "Unexpected token", carries |-> {"line"},
     line |-> PPeek(toks, cur).line, column |-> 0]

\* Parser.consume: the node slot carries the consumed token
PConsume(toks, cur, type, message) ==
    IF PCheck(toks, cur, type)
    THEN POk(PPeek(toks, cur), PAdvance(toks, cur))
    ELSE PRaise(ConsumeError(toks, cur, message), cur)

\* the cursor after the optional self.match(TokenType.SEMICOLON)
SkipSemicolon(toks, cur) ==
    IF PMatch(toks, cur, {"SEMICOLON"}) THEN PAdvance(toks, cur) ELSE cur

ConcatOps == {"DOTDOT"}
ComparisonOps == {"EQUAL_EQUAL", "GREATER", "GREATER_EQUAL", "LESS", "LESS_EQUAL"}
AdditiveOps == {"PLUS", "MINUS"}
MultiplicativeOps == {"STAR", "SLASH"}

\* a ParseError raised by r leaves the calling method; otherwise it goes on
\* (v is the value of r, taken once)
PThen(r, Rest(_)) ==
    CHOOSE out \in {IF ~v.ok THEN v ELSE Rest(v) : v \in {r}} : TRUE

RECURSIVE ParseStatement(_, _), ParseStatementList(_, _, _, _),
          ParseIfStatement(_, _), ParseWhileStatement(_, _),
          ParseFunctionDefinition(_, _), ParseParameters(_, _, _),
          ParseReturnStatement(_, _), ParseAssignment(_, _),
          ParseExpressionStatement(_, _), ParseExpression(_, _),
          ParseConcat(_, _), ConcatLoop(_, _, _),
          ParseComparison(_, _), ComparisonLoop(_, _, _),
          ParseAdditive(_, _), AdditiveLoop(_, _, _),
          ParseMultiplicative(_, _), MultiplicativeLoop(_, _, _),
          ParsePrimary(_, _), ParseArguments(_, _), ArgumentsLoop(_, _, _)

\* Parser.parse_primary
ParsePrimary(toks, cur) ==
    IF PMatch(toks, cur, {"NUMBER"})
    THEN POk(NumberNode(PPeek(toks, cur).value), cur + 1)
    ELSE IF PMatch(toks, cur, {"STRING"})
    THEN POk(StringNode(PPeek(toks, cur).value), cur + 1)
    ELSE IF PMatch(toks, cur, {"IDENTIFIER"})
    THEN IF PMatch(toks, cur + 1, {"LPAREN"})
         THEN PThen(ParseArguments(toks, cur + 2), LAMBDA args :
              PThen(PConsume(toks, args.pos, "RPAREN",
                             "Expected ')' after function arguments"),
                    LAMBDA close :
              POk(FunctionCallNode(PPeek(toks, cur).value, args.node), close.pos)))
         ELSE POk(VariableNode(PPeek(toks, cur).value), cur + 1)
    ELSE IF PMatch(toks, cur, {"LPAREN"})
    THEN PThen(ParseExpression(toks, cur + 1), LAMBDA expr :
         PThen(PConsume(toks, expr.pos, "RPAREN", "Expected ')' after expression"),
               LAMBDA close :
         POk(expr.node, close.pos)))
    ELSE PRaise(PrimaryError(toks, cur), cur)

\* Parser.parse_arguments: the node slot carries the list of argument nodes
ParseArguments(toks, cur) ==
    IF ~PCheck(toks, cur, "RPAREN")
    THEN PThen(ParseExpression(toks, cur), LAMBDA first :
         ArgumentsLoop(toks, first.pos, <<first.node>>))
    ELSE POk(<<>>, cur)

ArgumentsLoop(toks, cur, args) ==
    IF PMatch(toks, cur, {"COMMA"})
    THEN PThen(ParseExpression(toks, cur + 1), LAMBDA next :
         ArgumentsLoop(toks, next.pos, Append(args, next.node)))
    ELSE POk(args, cur)

\* Parser.parse_multiplicative
ParseMultiplicative(toks, cur) ==
    PThen(ParsePrimary(toks, cur), LAMBDA expr :
    MultiplicativeLoop(toks, expr.pos, expr.node))

MultiplicativeLoop(toks, cur, expr) ==
    IF PMatch(toks, cur, MultiplicativeOps)
    THEN PThen(ParsePrimary(toks, cur + 1), LAMBDA right :
         MultiplicativeLoop(toks, right.pos,
                            BinaryOpNode(expr, PPeek(toks, cur), right.node)))
    ELSE POk(expr, cur)

\* Parser.parse_additive
ParseAdditive(toks, cur) ==
    PThen(ParseMultiplicative(toks, cur), LAMBDA expr :
    AdditiveLoop(toks, expr.pos, expr.node))

\* a loop that would group a - b - c as a - (b - c)
AdditiveLoopRightAssociative(toks, cur, expr) ==
    IF PMatch(toks, cur, AdditiveOps)
    THEN PThen(ParseAdditive(toks, cur + 1), LAMBDA right :
         POk(BinaryOpNode(expr, PPeek(toks, cur), right.node), right.pos))
    ELSE POk(expr, cur)

AdditiveLoop(toks, cur, expr) ==
    IF PMatch(toks, cur, AdditiveOps)
    THEN PThen(ParseMultiplicative(toks, cur + 1), LAMBDA right :
         AdditiveLoop(toks, right.pos,
                      BinaryOpNode(expr, PPeek(toks, cur), right.node)))
    ELSE POk(expr, cur)

\* Parser.parse_comparison
ParseComparison(toks, cur) ==
    PThen(ParseAdditive(toks, cur), LAMBDA expr :
    ComparisonLoop(toks, expr.pos, expr.node))

ComparisonLoop(toks, cur, expr) ==
    IF PMatch(toks, cur, ComparisonOps)
    THEN PThen(ParseAdditive(toks, cur + 1), LAMBDA right :
         ComparisonLoop(toks, right.pos,
                        BinaryOpNode(expr, PPeek(toks, cur), right.node)))
    ELSE POk(expr, cur)

\* Parser.parse_concat
ParseConcat(toks, cur) ==
    PThen(ParseComparison(toks, cur), LAMBDA expr :
    ConcatLoop(toks, expr.pos, expr.node))

ConcatLoop(toks, cur, expr) ==
    IF PMatch(toks, cur, ConcatOps)
    THEN PThen(ParseComparison(toks, cur + 1), LAMBDA right :
         ConcatLoop(toks, right.pos,
                    BinaryOpNode(expr, PPeek(toks, cur), right.node)))
    ELSE POk(expr, cur)

\* Parser.parse_expression
ParseExpression(toks, cur) == ParseConcat(toks, cur)

\* Parser.parse_expression_statement
ParseExpressionStatement(toks, cur) ==
    PThen(ParseExpression(toks, cur), LAMBDA expr :
    POk(expr.node, SkipSemicolon(toks, expr.pos)))

\* Parser.parse_assignment; cur is the cursor when it is called
ParseAssignment(toks, cur) ==
    PThen(IF PPrevious(toks, cur).type = "LOCAL"
          THEN PConsume(toks, cur, "IDENTIFIER",
                        "Expected variable name after 'local'")
          ELSE POk(PPrevious(toks, PAdvance(toks, cur)), PAdvance(toks, cur)),
          LAMBDA name :
    PThen(PConsume(toks, name.pos, "ASSIGN", "Expected '=' after variable name"),
          LAMBDA eq :
    PThen(ParseExpression(toks, eq.pos), LAMBDA value :
    POk(AssignmentNode(name.node.value, value.node),
        SkipSemicolon(toks, value.pos)))))

\* Parser.parse_return_statement
ParseReturnStatement(toks, cur) ==
    IF ~PCheck(toks, cur, "END") /\ ~PCheck(toks, cur, "ELSE")
    THEN PThen(ParseExpression(toks, cur), LAMBDA value :
         POk(ReturnNode(value.node), SkipSemicolon(toks, value.pos)))
    ELSE POk(ReturnNode(NoNode), SkipSemicolon(toks, cur))

\* Parser.parse_statement_list: the node slot carries the list of statements
ParseStatementList(toks, cur, terminators, statements) ==
    IF ~PIsAtEnd(toks, cur) /\ ~(\E t \in terminators : PCheck(toks, cur, t))
    THEN PThen(ParseStatement(toks, cur), LAMBDA stmt :
         ParseStatementList(toks, stmt.pos, terminators,
                            Append(statements, stmt.node)))
    ELSE POk(statements, cur)

\* Parser.parse_if_statement; the else branch is None without an "else"
ParseIfStatement(toks, cur) ==
    PThen(ParseExpression(toks, cur), LAMBDA condition :
    PThen(PConsume(toks, condition.pos, "THEN", "Expected 'then' after if"),
          LAMBDA then :
    PThen(ParseStatementList(toks, then.pos, {"ELSE", "END"}, <<>>),
          LAMBDA thenBranch :
    PThen(IF PMatch(toks, thenBranch.pos, {"ELSE"})
          THEN PThen(ParseStatementList(toks, thenBranch.pos + 1, {"END"}, <<>>),
                     LAMBDA list : POk(BlockNode(list.node), list.pos))
          ELSE POk(NoNode, thenBranch.pos),
          LAMBDA elseBranch :
    PThen(PConsume(toks, elseBranch.pos, "END",
                   "Expected 'end' after if/else block"),
          LAMBDA end :
    POk(IfNode(condition.node, BlockNode(thenBranch.node), elseBranch.node),
        end.pos))))))

\* Parser.parse_while_statement
ParseWhileStatement(toks, cur) ==
    PThen(ParseExpression(toks, cur), LAMBDA condition :
    PThen(PConsume(toks, condition.pos, "DO",
                   "Expected 'do' after while condition"),
          LAMBDA do :
    PThen(ParseStatementList(toks, do.pos, {"END"}, <<>>), LAMBDA body :
    PThen(PConsume(toks, body.pos, "END", "Expected 'end' after while body"),
          LAMBDA end :
    POk(WhileNode(condition.node, BlockNode(body.node)), end.pos)))))

\* the parameter loop of Parser.parse_function_definition
ParseParameters(toks, cur, params) ==
    IF PMatch(toks, cur, {"COMMA"})
    THEN PThen(PConsume(toks, cur + 1, "IDENTIFIER", "Expected parameter name"),
               LAMBDA p :
         ParseParameters(toks, p.pos, Append(params, p.node.value)))
    ELSE POk(params, cur)

\* Parser.parse_function_definition
ParseFunctionDefinition(toks, cur) ==
    PThen(PConsume(toks, cur, "IDENTIFIER", "Expected function name"),
          LAMBDA name :
    PThen(PConsume(toks, name.pos, "LPAREN", "Expected '(' after function name"),
          LAMBDA open :
    PThen(IF ~PCheck(toks, open.pos, "RPAREN")
          THEN PThen(PConsume(toks, open.pos, "IDENTIFIER",
                              "Expected parameter name"),
                     LAMBDA first :
               ParseParameters(toks, first.pos, <<first.node.value>>))
          ELSE POk(<<>>, open.pos),
          LAMBDA params :
    PThen(PConsume(toks, params.pos, "RPAREN", "Expected ')' after parameters"),
          LAMBDA close :
    PThen(ParseStatementList(toks, close.pos, {"END"}, <<>>), LAMBDA body :
    PThen(PConsume(toks, body.pos, "END", "Expected 'end' after function body"),
          LAMBDA end :
    POk(FunctionNode(name.node.value, params.node, BlockNode(body.node)),
        end.pos)))))))

\* Parser.parse_statement
ParseStatement(toks, cur) ==
    IF PMatch(toks, cur, {"IF"}) THEN ParseIfStatement(toks, cur + 1)
    ELSE IF PMatch(toks, cur, {"WHILE"}) THEN ParseWhileStatement(toks, cur + 1)
    ELSE IF PMatch(toks, cur, {"FUNCTION"}) THEN ParseFunctionDefinition(toks, cur + 1)
    ELSE IF PMatch(toks, cur, {"RETURN"}) THEN ParseReturnStatement(toks, cur + 1)
    ELSE IF PMatch(toks, cur, {"LOCAL"}) THEN ParseAssignment(toks, cur + 1)
    ELSE IF PCheck(toks, cur, "IDENTIFIER") /\ PPeekNext(toks, cur).type = "ASSIGN"
    THEN ParseAssignment(toks, cur)
    ELSE ParseExpressionStatement(toks, cur)

\* Parser.parse as a function of the token list
RECURSIVE ParseLoop(_, _, _)
ParseLoop(toks, cur, statements) ==
    IF ~PIsAtEnd(toks, cur)
    THEN PThen(ParseStatement(toks, cur), LAMBDA stmt :
         ParseLoop(toks, stmt.pos, Append(statements, stmt.node)))
    ELSE POk(BlockNode(statements), cur)

Parse(toks) == ParseLoop(toks, 0, <<>>)

(***************************************************************************)
(* Token lists handed to the parser: one token per column of line 1, as    *)
(* the lexer gives for a one-line source, closed by the EOF token.         *)
(***************************************************************************)
TokenText ==
    [k \in {"FUNCTION", "IF", "THEN", "ELSE", "END", "WHILE", "DO", "RETURN",
            "LOCAL", "ASSIGN", "PLUS", "MINUS", "STAR", "SLASH", "LPAREN",
            "RPAREN", "COMMA", "SEMICOLON", "GREATER", "GREATER_EQUAL", "LESS",
            "LESS_EQUAL", "EQUAL_EQUAL", "DOTDOT"} |->
        CASE k = "FUNCTION" -> <<"f","u","n","c","t","i","o","n">>
          [] k = "IF" -> <<"i","f">>
          [] k = "THEN" -> <<"t","h","e","n">>
          [] k = "ELSE" -> <<"e","l","s","e">>
          [] k = "END" -> <<"e","n","d">>
          [] k = "WHILE" -> <<"w","h","i","l","e">>
          [] k = "DO" -> <<"d","o">>
          [] k = "RETURN" -> <<"r","e","t","u","r","n">>
          [] k = "LOCAL" -> <<"l","o","c","a","l">>
          [] k = "ASSIGN" -> <<"=">>
          [] k = "PLUS" -> <<"+">>
          [] k = "MINUS" -> <<"-">>
          [] k = "STAR" -> <<"*">>
          [] k = "SLASH" -> <<"/">>
          [] k = "LPAREN" -> <<"(">>
          [] k = "RPAREN" -> <<")">>
          [] k = "COMMA" -> <<",">>
          [] k = "SEMICOLON" -> <<";">>
          [] k = "GREATER" -> <<">">>
          [] k = "GREATER_EQUAL" -> <<">", "=">>
          [] k = "LESS" -> <<"<">>
          [] k = "LESS_EQUAL" -> <<"<", "=">>
          [] k = "EQUAL_EQUAL" -> <<"=", "=">>
          [] k = "DOTDOT" -> <<".", ".">>]

IdentNames == <<"a", "b", "c", "d", "e", "f", "g", "h">>

\* the value of the token of type k at place i: identifiers are named by place
TokenValue(k, i) ==
    CASE k = "IDENTIFIER" -> <<IdentNames[((i - 1) % Len(IdentNames)) + 1]>>
      [] k = "NUMBER" -> <<"int", i>>
      [] k = "STRING" -> <<"s">>
      [] k = "EOF" -> NoValue
      [] OTHER -> TokenText[k]

MkTokens(kinds) ==
    [i \in 1..Len(kinds) |-> Token(kinds[i], TokenValue(kinds[i], i), 1, i)]
        \o <<Token("EOF", NoValue, 1, Len(kinds) + 1)>>

(***************************************************************************)
(* The token lists the parser is run on                                    *)
(***************************************************************************)
ArbitraryKinds ==
    {"IDENTIFIER", "NUMBER", "FUNCTION", "IF", "THEN", "ELSE", "END", "WHILE",
     "DO", "RETURN", "LOCAL", "ASSIGN", "PLUS", "STAR", "LESS", "DOTDOT",
     "LPAREN", "RPAREN", "COMMA", "SEMICOLON", "EOF"}

BinaryOps == ConcatOps \cup ComparisonOps \cup AdditiveOps \cup MultiplicativeOps

\* operand (op operand)*, with the operands lo..hi in parentheses (lo = 0: none)
RECURSIVE FlatExpression(_, _, _, _)
FlatExpression(n, ops, lo, hi) ==
    IF n = 0 THEN <<>>
    ELSE FlatExpression(n - 1, ops, lo, hi)
            \o (IF n > 1 THEN <<ops[n - 1]>> ELSE <<>>)
            \o (IF n = lo THEN <<"LPAREN">> ELSE <<>>)
            \o <<"IDENTIFIER">>
            \o (IF n = hi THEN <<"RPAREN">> ELSE <<>>)

\* statements of the grammar in syntaxtree.py: the token types, and the places
\* (counted in tokens) where a statement ends
Form(kinds, inner) == [kinds |-> kinds, ends |-> inner \cup {Len(kinds)}]

SimpleStatements ==
    {<<"IDENTIFIER", "ASSIGN", "NUMBER">>,
     <<"LOCAL", "IDENTIFIER", "ASSIGN", "NUMBER">>,
     <<"RETURN">>,
     <<"RETURN", "NUMBER">>,
     <<"IDENTIFIER", "LPAREN", "RPAREN">>}

Bodies ==
    {<<>>, <<"RETURN">>, <<"RETURN", "NUMBER">>, <<"IDENTIFIER", "ASSIGN", "NUMBER">>}

ElseBodies == {<<>>, <<"RETURN">>}

ParameterLists == {<<>>, <<"IDENTIFIER", "COMMA", "IDENTIFIER">>}

\* the end of a body that starts after `before` tokens
BodyEnd(before, body) == IF body = <<>> THEN {} ELSE {before + Len(body)}

StatementForms ==
    {Form(k, {}) : k \in SimpleStatements}
    \cup {Form(<<"IF", "IDENTIFIER", "THEN">> \o b \o <<"END">>, BodyEnd(3, b)) :
             b \in Bodies}
    \cup {Form(<<"IF", "IDENTIFIER", "THEN">> \o b \o <<"ELSE">> \o e \o <<"END">>,
               BodyEnd(3, b) \cup BodyEnd(4 + Len(b), e)) :
             b \in Bodies, e \in ElseBodies}
    \cup {Form(<<"WHILE", "IDENTIFIER", "DO">> \o b \o <<"END">>, BodyEnd(3, b)) :
             b \in Bodies}
    \cup {Form(<<"FUNCTION", "IDENTIFIER", "LPAREN">> \o ps \o <<"RPAREN">> \o b
                   \o <<"END">>,
               BodyEnd(4 + Len(ps), b)) :
             ps \in ParameterLists, b \in Bodies}

RECURSIVE ProgramKinds(_)
ProgramKinds(fs) ==
    IF fs = <<>> THEN <<>>
    ELSE ProgramKinds(SubSeq(fs, 1, Len(fs) - 1)) \o fs[Len(fs)].kinds

RECURSIVE ProgramEnds(_)
ProgramEnds(fs) ==
    IF fs = <<>> THEN {}
    ELSE LET front == SubSeq(fs, 1, Len(fs) - 1)
         IN  ProgramEnds(front)
                \cup {Len(ProgramKinds(front)) + e : e \in fs[Len(fs)].ends}

\* "return" followed by a call reads as one statement or as two
Ambiguous(fs) ==
    \E i \in 1..(Len(fs) - 1) :
        /\ fs[i].kinds = <<"RETURN">>
        /\ fs[i + 1].kinds = <<"IDENTIFIER", "LPAREN", "RPAREN">>

\* kinds with a ";" added after the first e tokens (e = 0: nothing added)
WithSemicolon(kinds, e) ==
    IF e = 0 THEN kinds
    ELSE SubSeq(kinds, 1, e) \o <<"SEMICOLON">> \o SubSeq(kinds, e + 1, Len(kinds))

\* the token list without its token number k
WithoutToken(toks, k) == SubSeq(toks, 1, k - 1) \o SubSeq(toks, k + 1, Len(toks))

ParseStart(kinds, family, count, semi) ==
    /\ ptokens = MkTokens(kinds)
    /\ pinput = [family |-> family, count |-> count, semi |-> semi]
    /\ pcurrent = 0
    /\ pstatements = <<>>
    /\ pstatus = "parsing"
    /\ perror = NoError
    /\ presult = NoNode

ParseIdle ==
    /\ ptokens = <<>>
    /\ pinput = [family |-> "none", count |-> 0, semi |-> 0]
    /\ pcurrent = 0
    /\ pstatements = <<>>
    /\ pstatus = "idle"
    /\ perror = NoError
    /\ presult = NoNode

ParseInit ==
    \/ \E n \in 0..MaxToks : \E kinds \in [1..n -> ArbitraryKinds] :
           ParseStart(kinds, "arbitrary", 0, 0)
    \/ \E n \in 1..MaxOperands : \E ops \in [1..(n - 1) -> BinaryOps] :
       \E lo \in 0..n : \E hi \in lo..n :
           /\ lo = 0 => hi = 0
           /\ ParseStart(FlatExpression(n, ops, lo, hi), "expression", 1, 0)
    \/ \E n \in 0..MaxStmts : \E fs \in [1..n -> StatementForms] :
       \E e \in {0} \cup ProgramEnds(fs) :
           /\ ~Ambiguous(fs)
           /\ ParseStart(WithSemicolon(ProgramKinds(fs), e), "program", n,
                         IF e = 0 THEN 0 ELSE e + 1)

\* a loop that would note a ParseError and go on from where the statement began
StatementOutcomeRecovers(stmt) ==
    IF stmt.ok
    THEN /\ pstatements' = Append(pstatements, stmt.node)
         /\ pcurrent' = stmt.pos
         /\ UNCHANGED <<pstatus, perror>>
    ELSE /\ perror' = stmt.error
         /\ UNCHANGED <<pcurrent, pstatus, pstatements>>

\* Parser.parse, one turn of its loop: parse_statement returns or raises
StatementOutcome(stmt) ==
    IF stmt.ok
    THEN /\ pstatements' = Append(pstatements, stmt.node)
         /\ pcurrent' = stmt.pos
         /\ UNCHANGED <<pstatus, perror>>
    ELSE /\ perror' = stmt.error
         /\ pcurrent' = stmt.pos
         /\ pstatus' = "error"
         /\ UNCHANGED pstatements

ParseOneStatement ==
    /\ pstatus = "parsing"
    /\ ~PIsAtEnd(ptokens, pcurrent)
    /\ StatementOutcome(ParseStatement(ptokens, pcurrent))
    /\ UNCHANGED <<ptokens, presult, pinput, lexVars, semVars>>

\* Parser.parse after its loop: the program's BlockNode
ParseReturnsBlock ==
    /\ pstatus = "parsing"
    /\ PIsAtEnd(ptokens, pcurrent)
    /\ presult' = BlockNode(pstatements)
    /\ pstatus' = "done"
    /\ UNCHANGED <<ptokens, pcurrent, pstatements, perror, pinput, lexVars,
                   semVars>>

ParseNext ==
    \/ ParseOneStatement
    \/ ParseReturnsBlock

(***************************************************************************)
(* Semantic analyzer (semantic.py).  Symbol tables are objects: tables is  *)
(* the heap of the SymbolTable objects made so far, a table is named by    *)
(* its place in it, and parent 0 is Python's None.  The recursion of       *)
(* analyze_node over statements is the stack work; the analysis of an      *)
(* expression changes no state and is the operator AnalyzeExpression.      *)
(***************************************************************************)
NoType == "None"

NoTable == 0

EmptyMap == [n \in {} |-> NoType]

Put(map, key, value) ==
    [n \in DOMAIN map \cup {key} |-> IF n = key THEN value ELSE map[n]]

\* SymbolTable.__init__
SymbolTable(parent) ==
    [variables |-> EmptyMap, functions |-> EmptyMap, parent |-> parent]

\* a SemanticError, by the rule it reports and what its message names
SemanticError(kind, detail) == [kind |-> kind, detail |-> detail]

NoSemanticError == SemanticError("", [name |-> <<>>])

\* what a call of analyze_node or of a SymbolTable getter gives: a value, or
\* the SemanticError it raises
SOk(value) == [ok |-> TRUE, value |-> value, error |-> NoSemanticError]

SRaise(err) == [ok |-> FALSE, value |-> NoType, error |-> err]

\* a SemanticError raised by r leaves the calling code; otherwise it goes on
SThen(r, Rest(_)) == IF ~r.ok THEN r ELSE Rest(r)

\* what a SymbolTable declaration gives: the heap after it, and its error
TOk(tabs) == [ok |-> TRUE, tabs |-> tabs, error |-> NoSemanticError]

TRaise(err, tabs) == [ok |-> FALSE, tabs |-> tabs, error |-> err]

TThen(r, Rest(_)) == IF ~r.ok THEN r ELSE Rest(r)

\* SymbolTable.declare_variable on table t
DeclareVariable(tabs, t, name, var_type) ==
    IF name \in DOMAIN tabs[t].variables
    THEN TRaise(SemanticError("DuplicateDeclaration",
                              [what |-> "Variable", name |-> name]), tabs)
    ELSE TOk([tabs EXCEPT ![t].variables = Put(@, name, var_type)])

\* SymbolTable.get_variable on table t
RECURSIVE GetVariable(_, _, _)
GetVariable(tabs, t, name) ==
    IF name \in DOMAIN tabs[t].variables THEN SOk(tabs[t].variables[name])
    ELSE IF tabs[t].parent # NoTable THEN GetVariable(tabs, tabs[t].parent, name)
    ELSE SRaise(SemanticError("UndefinedVariable", [name |-> name]))

\* SymbolTable.declare_function on table t
DeclareFunction(tabs, t, name, param_count, param_types, return_type) ==
    IF name \in DOMAIN tabs[t].functions
    THEN TRaise(SemanticError("DuplicateDeclaration",
                              [what |-> "Function", name |-> name]), tabs)
    ELSE TOk([tabs EXCEPT ![t].functions =
                              Put(@, name, <<param_count, param_types, return_type>>)])

\* a get_function that would prefer the declaration of the outermost table
RECURSIVE GetFunctionOutermost(_, _, _)
GetFunctionOutermost(tabs, t, name) ==
    IF tabs[t].parent # NoTable
          /\ GetFunctionOutermost(tabs, tabs[t].parent, name).ok
    THEN GetFunctionOutermost(tabs, tabs[t].parent, name)
    ELSE IF name \in DOMAIN tabs[t].functions THEN SOk(tabs[t].functions[name])
    ELSE SRaise(SemanticError("UndefinedFunction", [name |-> name]))

\* SymbolTable.get_function on table t
RECURSIVE GetFunction(_, _, _)
GetFunction(tabs, t, name) ==
    IF name \in DOMAIN tabs[t].functions THEN SOk(tabs[t].functions[name])
    ELSE IF tabs[t].parent # NoTable THEN GetFunction(tabs, tabs[t].parent, name)
    ELSE SRaise(SemanticError("UndefinedFunction", [name |-> name]))

ExpressionKinds == {"Number", "String", "Variable", "BinaryOp", "FunctionCall"}

ArithmeticOps == {"PLUS", "MINUS", "STAR", "SLASH"}

\* a BinaryOpNode branch that would ask only one operand to be a number
BinaryOpTypeEitherNumber(op, left_type, right_type) ==
    IF op.type = "DOTDOT" THEN SOk("string")
    ELSE IF op.type \in ArithmeticOps
    THEN IF left_type # "number" /\ right_type # "number"
         THEN SRaise(SemanticError("TypeMismatch",
                         [left |-> left_type, right |-> right_type,
                          line |-> op.line, column |-> op.column]))
         ELSE SOk("number")
    ELSE SOk("boolean")

\* a BinaryOpNode branch that would check the operands of every operator
BinaryOpTypeAlwaysChecks(op, left_type, right_type) ==
    IF left_type # right_type
    THEN SRaise(SemanticError("TypeMismatch",
                    [left |-> left_type, right |-> right_type,
                     line |-> op.line, column |-> op.column]))
    ELSE IF op.type = "DOTDOT" THEN SOk("string")
    ELSE IF op.type \in ArithmeticOps THEN SOk("number")
    ELSE SOk("boolean")

\* analyze_node on a BinaryOpNode, after its operands: the operator's check
BinaryOpType(op, left_type, right_type) ==
    IF op.type = "DOTDOT" THEN SOk("string")
    ELSE IF op.type \in ArithmeticOps
    THEN IF left_type # "number" \/ right_type # "number"
         THEN SRaise(SemanticError("TypeMismatch",
                         [left |-> left_type, right |-> right_type,
                          line |-> op.line, column |-> op.column]))
         ELSE SOk("number")
    ELSE SOk("boolean")

RECURSIVE AnalyzeExpression(_, _, _), AnalyzeArguments(_, _, _, _)
RECURSIVE AnalyzeCall(_, _, _)

\* analyze_node on a NumberNode, StringNode, VariableNode, BinaryOpNode or
\* FunctionCallNode, with table t as self.symbol_table: the type it returns
AnalyzeExpression(node, tabs, t) ==
    CASE node.kind = "Number" -> SOk("number")
      [] node.kind = "String" -> SOk("string")
      [] node.kind = "Variable" -> GetVariable(tabs, t, node.name)
      [] node.kind = "BinaryOp" ->
            SThen(AnalyzeExpression(node.left, tabs, t), LAMBDA left_type :
            SThen(AnalyzeExpression(node.right, tabs, t), LAMBDA right_type :
            BinaryOpType(node.op, left_type.value, right_type.value)))
      [] node.kind = "FunctionCall" -> AnalyzeCall(node, tabs, t)

\* analyze_node on a FunctionCallNode
AnalyzeCall(node, tabs, t) ==
    SThen(GetFunction(tabs, t, node.name), LAMBDA func_info :
    IF Len(node.arguments) # func_info.value[1]
    THEN SRaise(SemanticError("ArityMismatch",
                    [name |-> node.name,
                     expected |-> func_info.value[1],
                     got |-> Len(node.arguments)]))
    ELSE SThen(AnalyzeArguments(node.arguments, 1, tabs, t), LAMBDA args :
         SOk(IF func_info.value[3] # NoType THEN func_info.value[3]
             ELSE "any")))

\* the loop over node.arguments of a FunctionCallNode
AnalyzeArguments(arguments, i, tabs, t) ==
    IF i > Len(arguments) THEN SOk(NoType)
    ELSE SThen(AnalyzeExpression(arguments[i], tabs, t), LAMBDA arg :
         AnalyzeArguments(arguments, i + 1, tabs, t))

\* the loop over node.params of a FunctionNode: each is declared "any" in t
RECURSIVE DeclareParameters(_, _, _, _)
DeclareParameters(tabs, t, params, i) ==
    IF i > Len(params) THEN TOk(tabs)
    ELSE TThen(DeclareVariable(tabs, t, params[i], "any"), LAMBDA r :
         DeclareParameters(r.tabs, t, params, i + 1))

\* the loop over node.body.statements of a FunctionNode: return_type takes
\* the type of the value of every direct ReturnNode that has one
RECURSIVE ScanReturns(_, _, _, _, _)
ScanReturns(statements, i, tabs, t, return_type) ==
    IF i > Len(statements) THEN SOk(return_type)
    ELSE IF statements[i].kind = "Return" /\ statements[i].value # NoNode
    THEN SThen(AnalyzeExpression(statements[i].value, tabs, t), LAMBDA r :
         ScanReturns(statements, i + 1, tabs, t, r.value))
    ELSE ScanReturns(statements, i + 1, tabs, t, return_type)

\* the frames of work: a node analyze_node is yet to be called on, and what
\* a BlockNode or FunctionNode branch of analyze_node does after its children
NodeFrame(node) == [kind |-> "node", node |-> node]

EndBlockFrame(old_symbol_table, scope) ==
    [kind |-> "end_block", old_symbol_table |-> old_symbol_table, scope |-> scope]

EndFunctionFrame(old_symbol_table, old_function, scope) ==
    [kind |-> "end_function", old_symbol_table |-> old_symbol_table,
     old_function |-> old_function, scope |-> scope]

Top == work[Len(work)]

Pop(w) == SubSeq(w, 1, Len(w) - 1)

Reverse(s) == [i \in 1..Len(s) |-> s[Len(s) + 1 - i]]

\* analyze_node is about to be called on a node of one of the kinds
Analyzing(kinds) ==
    /\ semStatus = "analyzing"
    /\ work # <<>>
    /\ Top.kind = "node"
    /\ Top.node.kind \in kinds

\* a SemanticError leaves analyze: the analyzer keeps the state it had
Raise(err) ==
    /\ semStatus' = "error"
    /\ semError' = err

\* analyze_node returns: the next frame of work is on top
Returns ==
    /\ work' = Pop(work)
    /\ UNCHANGED <<semStatus, semError>>

\* history: no step made yet
NoStep ==
    [frame |-> [kind |-> "none"], tables |-> <<>>, symbol_table |-> NoTable,
     current_function |-> NoValue, returned |-> NoType]

\* history: the frame of work this step takes, the state it is taken in and
\* what analyze_node returns (None when it raises or goes on to its children)
Called(returned) ==
    /\ last' = [frame |-> Top, tables |-> tables,
                symbol_table |-> symbol_table,
                current_function |-> current_function,
                returned |-> returned]
    /\ visited' = IF Top.kind = "node" THEN Append(visited, Top.node)
                  ELSE visited

\* analyze_node on a BlockNode, up to its loop: a child table is made current
AnalyzeBlock ==
    /\ Analyzing({"Block"})
    /\ tables' = Append(tables, SymbolTable(symbol_table))
    /\ symbol_table' = Len(tables) + 1
    /\ work' = Pop(work)
                  \o <<EndBlockFrame(symbol_table, Len(tables) + 1)>>
                  \o Reverse([i \in 1..Len(Top.node.statements) |->
                                 NodeFrame(Top.node.statements[i])])
    /\ Called(NoType)
    /\ UNCHANGED <<given, current_function, semStatus, semError, registered,
                   lexVars, parseVars>>

\* a BlockNode branch that would leave its own table current
EndBlockKeepsTable ==
    /\ semStatus = "analyzing"
    /\ work # <<>>
    /\ Top.kind = "end_block"
    /\ Returns
    /\ Called(NoType)
    /\ UNCHANGED <<given, tables, symbol_table, current_function, registered,
                   lexVars, parseVars>>

\* analyze_node on a BlockNode, after its loop
EndBlock ==
    /\ semStatus = "analyzing"
    /\ work # <<>>
    /\ Top.kind = "end_block"
    /\ symbol_table' = Top.old_symbol_table
    /\ Returns
    /\ Called(NoType)
    /\ UNCHANGED <<given, tables, current_function, registered,
                   lexVars, parseVars>>

\* analyze_node on an expression that stands as a statement
ExpressionOutcome(type) ==
    /\ IF type.ok THEN Returns ELSE Raise(type.error) /\ UNCHANGED work
    /\ Called(type.value)

AnalyzeExpressionStatement ==
    /\ Analyzing(ExpressionKinds)
    /\ ExpressionOutcome(AnalyzeExpression(Top.node, tables, symbol_table))
    /\ UNCHANGED <<given, tables, symbol_table, current_function, registered,
                   lexVars, parseVars>>

\* an AssignmentNode branch that would store the new type of a known name
AssignmentOutcomeRetypes(var_name, expr_type) ==
    IF ~expr_type.ok
    THEN Raise(expr_type.error) /\ Called(NoType) /\ UNCHANGED <<work, tables>>
    ELSE /\ tables' = [tables EXCEPT ![symbol_table].variables =
                                         Put(@, var_name, expr_type.value)]
         /\ Returns
         /\ Called(expr_type.value)

\* analyze_node on an AssignmentNode
AssignmentOutcome(var_name, expr_type) ==
    IF ~expr_type.ok
    THEN Raise(expr_type.error) /\ Called(NoType) /\ UNCHANGED <<work, tables>>
    ELSE IF GetVariable(tables, symbol_table, var_name).ok
    THEN Returns /\ Called(expr_type.value) /\ UNCHANGED tables
    ELSE IF DeclareVariable(tables, symbol_table, var_name, expr_type.value).ok
    THEN /\ tables' = DeclareVariable(tables, symbol_table, var_name,
                                      expr_type.value).tabs
         /\ Returns
         /\ Called(expr_type.value)
    ELSE /\ Raise(DeclareVariable(tables, symbol_table, var_name,
                                  expr_type.value).error)
         /\ Called(NoType)
         /\ UNCHANGED <<work, tables>>

AnalyzeAssignment ==
    /\ Analyzing({"Assignment"})
    /\ AssignmentOutcome(Top.node.variable,
                         AnalyzeExpression(Top.node.value, tables, symbol_table))
    /\ UNCHANGED <<given, symbol_table, current_function, registered,
                   lexVars, parseVars>>

\* an IfNode or WhileNode branch that would take "any" for a boolean
ConditionOutcomeTakesAny(construct, condition_type, blocks) ==
    /\ IF ~condition_type.ok
       THEN Raise(condition_type.error) /\ UNCHANGED work
       ELSE IF condition_type.value \notin {"boolean", "any"}
       THEN /\ Raise(SemanticError("ConditionTypeError",
                                   [construct |-> construct,
                                    got |-> condition_type.value]))
            /\ UNCHANGED work
       ELSE /\ work' = Pop(work)
                          \o Reverse([i \in 1..Len(blocks) |->
                                         NodeFrame(blocks[i])])
            /\ UNCHANGED <<semStatus, semError>>
    /\ Called(NoType)

\* analyze_node on an IfNode or a WhileNode: the condition, then the blocks
ConditionOutcome(construct, condition_type, blocks) ==
    /\ IF ~condition_type.ok
       THEN Raise(condition_type.error) /\ UNCHANGED work
       ELSE IF condition_type.value # "boolean"
       THEN /\ Raise(SemanticError("ConditionTypeError",
                                   [construct |-> construct,
                                    got |-> condition_type.value]))
            /\ UNCHANGED work
       ELSE /\ work' = Pop(work)
                          \o Reverse([i \in 1..Len(blocks) |->
                                         NodeFrame(blocks[i])])
            /\ UNCHANGED <<semStatus, semError>>
    /\ Called(NoType)

AnalyzeIf ==
    /\ Analyzing({"If"})
    /\ ConditionOutcome("If",
                        AnalyzeExpression(Top.node.condition, tables, symbol_table),
                        IF Top.node.else_branch # NoNode
                        THEN <<Top.node.then_branch, Top.node.else_branch>>
                        ELSE <<Top.node.then_branch>>)
    /\ UNCHANGED <<given, tables, symbol_table, current_function, registered,
                   lexVars, parseVars>>

AnalyzeWhile ==
    /\ Analyzing({"While"})
    /\ ConditionOutcome("While",
                        AnalyzeExpression(Top.node.condition, tables, symbol_table),
                        <<Top.node.body>>)
    /\ UNCHANGED <<given, tables, symbol_table, current_function, registered,
                   lexVars, parseVars>>

\* analyze_node on a ReturnNode
AnalyzeReturn ==
    /\ Analyzing({"Return"})
    /\ IF current_function = NoValue
       THEN /\ Raise(SemanticError("ReturnOutsideFunction", [name |-> <<>>]))
            /\ Called(NoType)
            /\ UNCHANGED work
       ELSE IF Top.node.value # NoNode
       THEN ExpressionOutcome(AnalyzeExpression(Top.node.value, tables,
                                                symbol_table))
       ELSE Returns /\ Called(NoType)
    /\ UNCHANGED <<given, tables, symbol_table, current_function, registered,
                   lexVars, parseVars>>

\* the type of the value of the first direct ReturnNode that has a value
RECURSIVE FirstReturnType(_, _, _, _)
FirstReturnType(statements, i, tabs, t) ==
    IF i > Len(statements) THEN NoType
    ELSE IF statements[i].kind = "Return" /\ statements[i].value # NoNode
    THEN AnalyzeExpression(statements[i].value, tabs, t).value
    ELSE FirstReturnType(statements, i + 1, tabs, t)

\* analyze_node on a FunctionNode, up to the analysis of the body: the
\* function's table, the parameters, the return type, the registration
FunctionOutcome(node, old, new, defined, first) ==
    /\ Called(NoType)
    /\ symbol_table' = new
    /\ current_function' = node.name
    /\ tables' = defined.tabs
    /\ IF defined.ok
       THEN /\ work' = Pop(work)
                          \o <<EndFunctionFrame(old, current_function, new),
                               NodeFrame(node.body)>>
            /\ registered' = Append(registered,
                                 [table |-> old, scope |-> new,
                                  name |-> node.name,
                                  arity |-> Len(node.params), first |-> first])
            /\ UNCHANGED <<semStatus, semError>>
       ELSE /\ Raise(defined.error)
            /\ UNCHANGED <<work, registered>>

FunctionRegistration(node, old, new, declared) ==
    IF ~declared.ok THEN declared
    ELSE LET scanned == ScanReturns(node.body.statements, 1, declared.tabs,
                                    new, NoType)
         IN  IF ~scanned.ok THEN TRaise(scanned.error, declared.tabs)
             ELSE DeclareFunction(declared.tabs, old, node.name,
                                  Len(node.params),
                                  [i \in 1..Len(node.params) |-> "any"],
                                  scanned.value)

AnalyzeFunction ==
    /\ Analyzing({"Function"})
    /\ FunctionOutcome(Top.node, symbol_table, Len(tables) + 1,
           FunctionRegistration(Top.node, symbol_table, Len(tables) + 1,
               DeclareParameters(Append(tables, SymbolTable(symbol_table)),
                                 Len(tables) + 1, Top.node.params, 1)),
           FirstReturnType(Top.node.body.statements, 1,
               DeclareParameters(Append(tables, SymbolTable(symbol_table)),
                                 Len(tables) + 1, Top.node.params, 1).tabs,
               Len(tables) + 1))
    /\ UNCHANGED <<given, lexVars, parseVars>>

\* a FunctionNode branch that would leave its own table current
EndFunctionKeepsTable ==
    /\ semStatus = "analyzing"
    /\ work # <<>>
    /\ Top.kind = "end_function"
    /\ current_function' = Top.old_function
    /\ Returns
    /\ Called(NoType)
    /\ UNCHANGED <<given, tables, symbol_table, registered,
                   lexVars, parseVars>>

\* a FunctionNode branch that would leave its name as the current function
EndFunctionKeepsName ==
    /\ semStatus = "analyzing"
    /\ work # <<>>
    /\ Top.kind = "end_function"
    /\ symbol_table' = Top.old_symbol_table
    /\ Returns
    /\ Called(NoType)
    /\ UNCHANGED <<given, tables, current_function, registered,
                   lexVars, parseVars>>

\* analyze_node on a FunctionNode, after the analysis of the body
EndFunction ==
    /\ semStatus = "analyzing"
    /\ work # <<>>
    /\ Top.kind = "end_function"
    /\ symbol_table' = Top.old_symbol_table
    /\ current_function' = Top.old_function
    /\ Returns
    /\ Called(NoType)
    /\ UNCHANGED <<given, tables, registered, lexVars, parseVars>>

\* SemanticAnalyzer.analyze after its loop
AnalyzeReturnsTrue ==
    /\ semStatus = "analyzing"
    /\ work = <<>>
    /\ semStatus' = "done"
    /\ UNCHANGED <<given, tables, symbol_table, current_function, work, semError,
                   registered, last, visited, lexVars, parseVars>>

\* SemanticAnalyzer.__init__, and analyze about to be called on the tree that
\* Parser.parse returns for the tokens
Global ==
    [SymbolTable(NoTable) EXCEPT
        !.functions = Put(@, <<"p", "r", "i", "n", "t">>, <<1, <<"any">>, NoType>>)]

\* analyze has returned or raised: the same analyzer object is handed the
\* tree once more
AnalyzeAgainSameAnalyzer ==
    /\ semStatus \in {"done", "error"}
    /\ Len(runs) < MaxRuns
    /\ runs' = Append(runs, [ast |-> ast, accepted |-> semStatus = "done",
                             error |-> semError])
    /\ work' = <<NodeFrame(ast)>>
    /\ semStatus' = "analyzing"
    /\ semError' = NoSemanticError
    /\ registered' = <<>>
    /\ last' = NoStep
    /\ visited' = <<>>
    /\ UNCHANGED <<ast, tables, symbol_table, current_function,
                   lexVars, parseVars>>

\* analyze has returned or raised: a new SemanticAnalyzer is made and its
\* analyze is handed the same tree
AnalyzeAgain ==
    /\ semStatus \in {"done", "error"}
    /\ Len(runs) < MaxRuns
    /\ runs' = Append(runs, [ast |-> ast, accepted |-> semStatus = "done",
                             error |-> semError])
    /\ tables' = <<Global>>
    /\ symbol_table' = 1
    /\ current_function' = NoValue
    /\ work' = <<NodeFrame(ast)>>
    /\ semStatus' = "analyzing"
    /\ semError' = NoSemanticError
    /\ registered' = <<>>
    /\ last' = NoStep
    /\ visited' = <<>>
    /\ UNCHANGED <<ast, lexVars, parseVars>>

SemStartWith(parsed) ==
    /\ parsed.ok
    /\ ast = parsed.node
    /\ tables = <<Global>>
    /\ symbol_table = 1
    /\ current_function = NoValue
    /\ work = <<NodeFrame(parsed.node)>>
    /\ semStatus = "analyzing"
    /\ semError = NoSemanticError
    /\ registered = <<>>
    /\ last = NoStep
    /\ visited = <<>>
    /\ runs = <<>>

SemStart(toks) == SemStartWith(Parse(toks))

SemIdle ==
    /\ ast = NoNode
    /\ tables = <<>>
    /\ symbol_table = NoTable
    /\ current_function = NoValue
    /\ work = <<>>
    /\ semStatus = "idle"
    /\ semError = NoSemanticError
    /\ registered = <<>>
    /\ last = NoStep
    /\ visited = <<>>
    /\ runs = <<>>

(***************************************************************************)
(* The programs the analyzer is run on, as the words of their source: one  *)
(* token per column of line 1.                                             *)
(***************************************************************************)
W(type) == <<[type |-> type, value |-> TokenText[type]]>>

Id(name) == <<[type |-> "IDENTIFIER", value |-> name]>>

One == <<[type |-> "NUMBER", value |-> <<"int", 1>>]>>

Text == <<[type |-> "STRING", value |-> <<"s">>]>>

Place(words) ==
    [i \in 1..Len(words) |-> Token(words[i].type, words[i].value, 1, i)]
        \o <<Token("EOF", NoValue, 1, Len(words) + 1)>>

X == <<"x">>
Y == <<"y">>
F == <<"f">>
PrintName == <<"p", "r", "i", "n", "t">>

CallExpr(name, args) == Id(name) \o W("LPAREN") \o args \o W("RPAREN")

BinaryExpr(left, op, right) == left \o W(op) \o right

AssignStmt(name, value) == Id(name) \o W("ASSIGN") \o value

ReturnStmt(value) == W("RETURN") \o value

IfStmt(condition, then) == W("IF") \o condition \o W("THEN") \o then \o W("END")

IfElseStmt(condition, then, else) ==
    W("IF") \o condition \o W("THEN") \o then \o W("ELSE") \o else \o W("END")

WhileStmt(condition, body) == W("WHILE") \o condition \o W("DO") \o body \o W("END")

FunctionStmt(name, params, body) ==
    W("FUNCTION") \o Id(name) \o W("LPAREN") \o params \o W("RPAREN") \o body
        \o W("END")

Truth == BinaryExpr(One, "LESS", One)

SimplePrograms ==
    {W("LOCAL") \o AssignStmt(X, Text)}
    \cup {AssignStmt(X, v) :
        v \in {One, Text, Id(Y), CallExpr(F, <<>>),
               BinaryExpr(CallExpr(F, <<>>), "PLUS", One)}}
    \cup {CallExpr(F, <<>>), CallExpr(F, One), CallExpr(PrintName, Id(X)),
          CallExpr(PrintName, Id(Y))}
    \cup {ReturnStmt(One)}

InnerBlocks == {<<>>, AssignStmt(Y, One), FunctionStmt(F, <<>>, <<>>)}

FunctionBodies(params) ==
    {<<>>,
     ReturnStmt(<<>>),
     ReturnStmt(One),
     ReturnStmt(Text),
     ReturnStmt(One) \o ReturnStmt(Text),
     ReturnStmt(Text) \o ReturnStmt(One),
     ReturnStmt(Id(X)),
     ReturnStmt(CallExpr(F, params)),
     AssignStmt(Y, One),
     AssignStmt(Y, One) \o ReturnStmt(Id(Y)),
     AssignStmt(Y, CallExpr(F, params)),
     IfStmt(Truth, ReturnStmt(Text)) \o ReturnStmt(One)}

SemStatements ==
    SimplePrograms
    \cup {IfStmt(c, b) : c \in {Truth, Id(X)}, b \in InnerBlocks}
    \cup {IfElseStmt(Truth, b, e) : b \in InnerBlocks, e \in InnerBlocks}
    \cup {WhileStmt(Truth, b) : b \in InnerBlocks}
    \cup {FunctionStmt(F, <<>>, b) : b \in FunctionBodies(<<>>)}
    \cup {FunctionStmt(F, Id(X), b) : b \in FunctionBodies(Id(X))}

RECURSIVE Concat(_)
Concat(ss) == IF ss = <<>> THEN <<>> ELSE ss[1] \o Concat(Tail(ss))

SemInit ==
    \E n \in 0..MaxStmts : \E ss \in [1..n -> SemStatements] :
        SemStart(Place(Concat(ss)))

\* an expression in parentheses
Paren(e) == W("LPAREN") \o e \o W("RPAREN")

\* operands of every type an expression can have: number, string, boolean,
\* and "any" from a parameter or from a call of a function without a return
\* type; x is the parameter of the function they stand in
Operands ==
    {One, Text, Paren(Truth), Id(X), CallExpr(PrintName, One),
     Paren(BinaryExpr(One, "STAR", One)), Paren(BinaryExpr(One, "DOTDOT", One))}

\* y = left op right inside a function of one parameter that is then called,
\* and the local x = 1 + "s" of the top level
TypePrograms ==
    {FunctionStmt(F, Id(X),
                  WhileStmt(Truth, <<>>) \o IfStmt(Truth, <<>>)
                     \o AssignStmt(Y, BinaryExpr(l, op, r))
                     \o ReturnStmt(<<>>))
        \o CallExpr(F, One) :
        l \in Operands, r \in Operands, op \in BinaryOps}
    \cup {W("LOCAL") \o AssignStmt(X, BinaryExpr(One, "PLUS", Text))}

\* a name f that is nothing, a variable, or a function of 0, 1 or 2
\* parameters; then, inside a block that may declare its own f, a call
CallPrograms ==
    {outer \o IfStmt(Truth, inner \o CallExpr(name, args)) :
        outer \in {<<>>, AssignStmt(F, One), FunctionStmt(F, <<>>, <<>>),
                   FunctionStmt(F, Id(X), <<>>),
                   FunctionStmt(F, Id(X) \o W("COMMA") \o Id(Y),
                                ReturnStmt(Id(X)))},
        inner \in {<<>>, FunctionStmt(F, <<>>, <<>>),
                   FunctionStmt(F, Id(X), <<>>)},
        name \in {F, PrintName},
        args \in {<<>>, One, Id(Y), One \o W("COMMA") \o One,
                   One \o W("COMMA") \o Id(Y)}}

\* an if, an if with else or a while inside a function of parameter x: the
\* condition is a boolean, a number, a string, an "any" or fails; the first
\* block assigns y, the else block assigns it or reads it
ConditionPrograms ==
    {FunctionStmt(F, Id(X), s) :
        s \in UNION {{IfStmt(c, AssignStmt(Y, One)),
                      WhileStmt(c, AssignStmt(Y, One)),
                      IfElseStmt(c, AssignStmt(Y, One), AssignStmt(Y, Text)),
                      IfElseStmt(c, AssignStmt(Y, One),
                                 CallExpr(PrintName, Id(Y)))} :
                        c \in {Truth, One, Text, Id(X), Id(Y)}}}

\* returns inside a function y that is declared inside a function f, after
\* it in the body of f, after f at the top level, and inside blocks
ReturnPrograms ==
    {FunctionStmt(F, <<>>, FunctionStmt(Y, <<>>, inner) \o outer) \o top :
        inner \in {<<>>, ReturnStmt(<<>>), ReturnStmt(One)},
        outer \in {<<>>, ReturnStmt(<<>>), ReturnStmt(One)},
        top \in {<<>>, ReturnStmt(One), CallExpr(F, <<>>)}}
    \cup {IfStmt(Truth, ReturnStmt(One)),
          WhileStmt(Truth, ReturnStmt(<<>>)),
          FunctionStmt(F, <<>>,
                       IfStmt(Truth, WhileStmt(Truth, ReturnStmt(One)))),
          FunctionStmt(F, <<>>, <<>>) \o IfStmt(Truth, ReturnStmt(<<>>))}

\* programs with two violations, the one that comes first in the source
\* being the undefined y; statements after a failing one; and the function
\* that assigns x and returns it
OrderPrograms ==
    {FunctionStmt(F, <<>>, AssignStmt(X, Id(Y)) \o ReturnStmt(Id(F))),
     FunctionStmt(F, <<>>, CallExpr(PrintName, Id(Y)) \o ReturnStmt(Id(X))),
     FunctionStmt(F, <<>>, W("LOCAL") \o AssignStmt(X, One)
                              \o ReturnStmt(Id(X))),
     AssignStmt(X, BinaryExpr(Id(Y), "PLUS", Id(X))),
     AssignStmt(X, BinaryExpr(Text, "PLUS", Id(Y))),
     AssignStmt(X, BinaryExpr(Id(Y), "PLUS", CallExpr(F, <<>>))),
     AssignStmt(X, BinaryExpr(CallExpr(PrintName, Id(Y)), "STAR", Text)),
     CallExpr(PrintName, Id(Y) \o W("COMMA") \o Id(X)),
     CallExpr(PrintName, BinaryExpr(Id(Y), "PLUS", Text)),
     CallExpr(PrintName, One) \o AssignStmt(X, Id(Y))
        \o CallExpr(PrintName, Id(X)),
     IfStmt(Id(Y), CallExpr(F, <<>>)),
     WhileStmt(BinaryExpr(Id(Y), "LESS", Id(X)), <<>>)}

TypeInit ==
    \E p \in TypePrograms \cup CallPrograms \cup ConditionPrograms
                 \cup ReturnPrograms \cup OrderPrograms :
        SemStart(Place(p))

\* two blocks that each assign x, a number in the first and a string in the
\* second, which then fails or not
RerunPrograms ==
    {IfStmt(Truth, AssignStmt(X, One)
                      \o AssignStmt(Y, BinaryExpr(Id(X), "PLUS", One)))
        \o IfStmt(Truth, AssignStmt(X, Text) \o then) :
        then \in {<<>>, CallExpr(F, <<>>), ReturnStmt(One)}}

RerunInit ==
    \E p \in RerunPrograms \cup CallPrograms \cup ConditionPrograms
                 \cup ReturnPrograms :
        SemStart(Place(p))

SemNext ==
    \/ AnalyzeBlock
    \/ EndBlock
    \/ AnalyzeExpressionStatement
    \/ AnalyzeAssignment
    \/ AnalyzeIf
    \/ AnalyzeWhile
    \/ AnalyzeReturn
    \/ AnalyzeFunction
    \/ EndFunction
    \/ AnalyzeReturnsTrue

(***************************************************************************)
(* Parser claims                                                           *)
(***************************************************************************)
ParserStopped == pstatus \in {"done", "error"}

TypesOf(toks) == [i \in 1..Len(toks) |-> toks[i].type]

\* C4: a well-formed program, where "return" stands with or without an
\* expression anywhere in a block, is parsed without a ParseError, and the
\* Block returned has one entry per top-level statement, in source order.
C4_WellFormedProgramParses ==
    (pinput.family = "program" /\ pinput.semi = 0) =>
        /\ pstatus # "error"
        /\ pstatus = "done" =>
              /\ presult.kind = "Block"
              /\ Len(presult.statements) = pinput.count

\* C5: one ";" added directly after any statement of a program that parses
\* gives a program that parses, to the same AST.
C5_TrailingSemicolonAccepted ==
    (pinput.family = "program" /\ pinput.semi > 0 /\ ParserStopped) =>
        (Parse(WithoutToken(ptokens, pinput.semi)).ok =>
            /\ pstatus = "done"
            /\ presult = Parse(WithoutToken(ptokens, pinput.semi)).node)

\* the precedence layer of a binary operator, 1 the loosest; 0: no operator
Layer(type) ==
    CASE type = "DOTDOT" -> 1
      [] type \in {"EQUAL_EQUAL", "GREATER", "GREATER_EQUAL", "LESS", "LESS_EQUAL"} -> 2
      [] type \in {"PLUS", "MINUS"} -> 3
      [] type \in {"STAR", "SLASH"} -> 4
      [] OTHER -> 0

\* how many parentheses are open before token i
Depth(toks, i) ==
    Cardinality({j \in 1..(i - 1) : toks[j].type = "LPAREN"})
        - Cardinality({j \in 1..(i - 1) : toks[j].type = "RPAREN"})

\* the tree the four layers and left associativity give an expression: it
\* splits at the last operator of the loosest layer outside parentheses
RECURSIVE RefTree(_)
RefTree(toks) ==
    IF Len(toks) = 1 THEN VariableNode(toks[1].value)
    ELSE IF \A i \in 1..Len(toks) : Layer(toks[i].type) = 0 \/ Depth(toks, i) > 0
    THEN RefTree(SubSeq(toks, 2, Len(toks) - 1))
    ELSE LET ops == {i \in 1..Len(toks) :
                        Layer(toks[i].type) > 0 /\ Depth(toks, i) = 0}
             loosest == CHOOSE l \in 1..4 :
                            /\ \E i \in ops : Layer(toks[i].type) = l
                            /\ \A i \in ops : Layer(toks[i].type) >= l
             k == CHOOSE i \in ops :
                      /\ Layer(toks[i].type) = loosest
                      /\ \A j \in ops : Layer(toks[j].type) = loosest => j <= i
         IN  BinaryOpNode(RefTree(SubSeq(toks, 1, k - 1)), toks[k],
                          RefTree(SubSeq(toks, k + 1, Len(toks))))

\* C6: binary expressions have four precedence layers, from loosest to
\* tightest "..", the comparisons, + and -, * and /; every layer is left
\* associative; a parenthesised expression yields the inner node.
C6_PrecedenceLayers ==
    pinput.family = "expression" =>
        /\ pstatus # "error"
        /\ pstatus = "done" =>
              presult = BlockNode(<<RefTree(SubSeq(ptokens, 1, Len(ptokens) - 1))>>)

\* a + b * c has been parsed: the product is the right operand of the sum
C6_Witness ==
    /\ pstatus = "done"
    /\ pinput.family = "expression"
    /\ TypesOf(ptokens)
          = <<"IDENTIFIER", "PLUS", "IDENTIFIER", "STAR", "IDENTIFIER", "EOF">>
    /\ presult.statements[1].op.type = "PLUS"
    /\ presult.statements[1].right.kind = "BinaryOp"

\* C7: every ParseError carries a message and the line and the column of the
\* token at the cursor when it was raised, and parse returns no tree.
C7_ErrorsCarryLineAndColumn ==
    pstatus = "error" =>
        /\ perror.message # ""
        /\ perror.carries = {"line", "column"}
        /\ perror.line = PPeek(ptokens, pcurrent).line
        /\ perror.column = PPeek(ptokens, pcurrent).column
        /\ presult = NoNode

\* what one call of parse_statement at cursor cur did to the cursor: it did
\* not move back, it moved forward if the call returned, and it crossed no
\* EOF token (so it is still inside the list)
StatementMoves(toks, cur, stmt) ==
    /\ cur <= stmt.pos
    /\ stmt.pos <= Len(toks) - 1
    /\ stmt.ok => cur < stmt.pos
    /\ \A i \in (cur + 1)..stmt.pos : toks[i].type # "EOF"

C21_CursorStaysInList ==
    /\ pcurrent \in 0..(Len(ptokens) - 1)
    /\ \A i \in 1..pcurrent : ptokens[i].type # "EOF"
    /\ \A cur \in 0..(Len(ptokens) - 1) :
           StatementMoves(ptokens, cur, ParseStatement(ptokens, cur))
    /\ pstatus = "done" =>
           /\ PIsAtEnd(ptokens, pcurrent)
           /\ presult = BlockNode(pstatements)
           /\ perror = NoError
    /\ pstatus = "error" =>
           /\ perror # NoError
           /\ presult = NoNode

C21_CursorOnlyForward ==
    [][/\ pstatus = "parsing"
       /\ pcurrent' >= pcurrent
       /\ pstatus' = "parsing" => pcurrent' > pcurrent]_vars

\* C21: on every token list that ends with an EOF token, parse stops, with a
\* Block and the cursor on an EOF token or with one ParseError and no tree.
\* Every call of parse_statement, at any cursor, moves the cursor forward or
\* raises; the cursor never moves back and never crosses an EOF token; and
\* every turn of the loop of parse that does not stop it moves the cursor
\* forward, so that the loops of parse and parse_statement_list end.
C21_ParseTerminates ==
    /\ []C21_CursorStaysInList
    /\ C21_CursorOnlyForward
    /\ <>ParserStopped

\* two statements of several tokens each were parsed, the cursor ending on
\* the EOF token
C21_Witness ==
    /\ pstatus = "done"
    /\ Len(presult.statements) = 2
    /\ pcurrent > 3
    /\ pcurrent = Len(ptokens) - 1
    /\ PIsAtEnd(ptokens, pcurrent)

(***************************************************************************)
(* Analyzer claims                                                         *)
(***************************************************************************)
\* the tables on the parent chain of table t
RECURSIVE Chain(_, _)
Chain(tabs, t) ==
    IF t = NoTable THEN {} ELSE {t} \cup Chain(tabs, tabs[t].parent)

\* the global table and the tables of the blocks and functions not yet ended
OpenScopes ==
    {1} \cup {work[i].scope :
                 i \in {j \in 1..Len(work) :
                           work[j].kind \in {"end_block", "end_function"}}}

DeclaredVariables == UNION {DOMAIN tables[t].variables : t \in 1..Len(tables)}

DeclaredFunctions == UNION {DOMAIN tables[t].functions : t \in 1..Len(tables)}

\* a call of the function e with as many arguments as it has parameters
CallOf(e) ==
    FunctionCallNode(e.name, [j \in 1..e.arity |-> NumberNode(<<"int", 1>>)])

\* C8: the return type registered for a function is the type of the value of
\* the first direct return statement that has a value, or none when there is
\* none; a call that resolves to the function yields that type, "any" for none.
C8_FirstReturnDecides ==
    \A i \in 1..Len(registered) :
        /\ tables[registered[i].table].functions[registered[i].name][3]
              = registered[i].first
        /\ (GetFunction(tables, symbol_table, registered[i].name)
               = SOk(tables[registered[i].table].functions[registered[i].name]))
           => AnalyzeExpression(CallOf(registered[i]), tables, symbol_table)
                 = SOk(IF registered[i].first = NoType THEN "any"
                       ELSE registered[i].first)

\* C9: a function is registered in the table that was current before its own
\* table was made, with its arity and a parameter type list of "any"; it is
\* visible from that table on, and to every call inside its own body: no call
\* of the function being analyzed fails with UndefinedFunction.
C9_FunctionVisibleToItself ==
    /\ \A i \in 1..Len(registered) :
          /\ tables[registered[i].scope].parent = registered[i].table
          /\ tables[registered[i].table].functions[registered[i].name][1]
                = registered[i].arity
          /\ tables[registered[i].table].functions[registered[i].name][2]
                = [j \in 1..registered[i].arity |-> "any"]
          /\ registered[i].table \in Chain(tables, symbol_table)
                => GetFunction(tables, symbol_table, registered[i].name).ok
    /\ ~(/\ semStatus = "error"
         /\ semError.kind = "UndefinedFunction"
         /\ semError.detail.name = current_function)

\* C10: what is declared inside a block is gone when the block ends: the
\* tables a name is resolved through are the global one and those of the
\* blocks and functions still being analyzed, so a name resolves if and only
\* if one of these declares it.
C10_BlockDeclarationsEnd ==
    semStatus \in {"analyzing", "done"} =>
        /\ Chain(tables, symbol_table) = OpenScopes
        /\ \A n \in DeclaredVariables :
              GetVariable(tables, symbol_table, n).ok
                 <=> \E t \in OpenScopes : n \in DOMAIN tables[t].variables
        /\ \A n \in DeclaredFunctions :
              GetFunction(tables, symbol_table, n).ok
                 <=> \E t \in OpenScopes : n \in DOMAIN tables[t].functions

\* x = y is about to be analyzed after a block that declared y has ended
C10_Witness ==
    /\ Analyzing({"Assignment"})
    /\ Top.node.value = VariableNode(Y)
    /\ \E t \in 1..Len(tables) :
          t \notin OpenScopes /\ Y \in DOMAIN tables[t].variables
    /\ ~GetVariable(tables, symbol_table, Y).ok

\* the step just made was a call of analyze_node on a node of these kinds
LastWas(kinds) == last.frame.kind = "node" /\ last.frame.node.kind \in kinds

\* C11: an Assignment to a name that resolves through the scope chain changes
\* no table and leaves the stored type of the name as it was; otherwise the
\* current table alone gains the name with the type of the value.  It never
\* fails with DuplicateDeclaration, and it returns the type of its value.
C11_AssignmentFrame ==
    LastWas({"Assignment"}) =>
        /\ Len(tables) = Len(last.tables)
        /\ symbol_table = last.symbol_table
        /\ semStatus = "error" =>
              /\ semError.kind # "DuplicateDeclaration"
              /\ semError = AnalyzeExpression(last.frame.node.value, last.tables,
                                              last.symbol_table).error
              /\ tables = last.tables
        /\ semStatus # "error" =>
              /\ last.returned = AnalyzeExpression(last.frame.node.value,
                                     last.tables, last.symbol_table).value
              /\ last.returned # NoType
              /\ GetVariable(last.tables, last.symbol_table,
                             last.frame.node.variable).ok
                    => tables = last.tables
              /\ ~GetVariable(last.tables, last.symbol_table,
                              last.frame.node.variable).ok
                    => /\ \A t \in 1..Len(tables) :
                             /\ tables[t].functions = last.tables[t].functions
                             /\ tables[t].parent = last.tables[t].parent
                             /\ t # symbol_table
                                   => tables[t].variables
                                         = last.tables[t].variables
                       /\ DOMAIN tables[symbol_table].variables
                             = DOMAIN last.tables[symbol_table].variables
                                  \cup {last.frame.node.variable}
                       /\ \A n \in DOMAIN tables[symbol_table].variables :
                             tables[symbol_table].variables[n]
                                = IF n = last.frame.node.variable
                                  THEN last.returned
                                  ELSE last.tables[symbol_table].variables[n]

\* an Assignment of a value of another type to a name that is declared
C11_Witness ==
    /\ LastWas({"Assignment"})
    /\ semStatus # "error"
    /\ GetVariable(last.tables, last.symbol_table, last.frame.node.variable).ok
    /\ GetVariable(last.tables, last.symbol_table,
                   last.frame.node.variable).value # last.returned

\* the step just made analyzed an Assignment whose value is a BinaryOp with
\* one of these operators
LastOperator(ops) ==
    /\ LastWas({"Assignment"})
    /\ last.frame.node.value.kind = "BinaryOp"
    /\ last.frame.node.value.op.type \in ops

\* what the operands of that BinaryOp give in the state the step was made in
LastLeft ==
    AnalyzeExpression(last.frame.node.value.left, last.tables,
                      last.symbol_table)

LastRight ==
    AnalyzeExpression(last.frame.node.value.right, last.tables,
                      last.symbol_table)

ExpressionTypes == {"number", "string", "boolean", "any"}

\* C12: a BinaryOp with + - * / whose operands both analyze gives "number"
\* when both operand types are "number"; with any other pair of types the
\* analysis fails with a TypeMismatch that names the left type, the right type
\* and the line and column of the operator token.
C12_ArithmeticNeedsNumbers ==
    (LastOperator({"PLUS", "MINUS", "STAR", "SLASH"})
        /\ LastLeft.ok /\ LastRight.ok) =>
        /\ LastLeft.value \in ExpressionTypes
        /\ LastRight.value \in ExpressionTypes
        /\ (LastLeft.value = "number" /\ LastRight.value = "number")
              => semStatus # "error" /\ last.returned = "number"
        /\ ~(LastLeft.value = "number" /\ LastRight.value = "number")
              => /\ semStatus = "error"
                 /\ semError.kind = "TypeMismatch"
                 /\ semError.detail.left = LastLeft.value
                 /\ semError.detail.right = LastRight.value
                 /\ semError.detail.line = last.frame.node.value.op.line
                 /\ semError.detail.column = last.frame.node.value.op.column

\* local x = 1 + "s" fails: number and string, at the + in column 5 of line 1
C12_Witness ==
    /\ LastOperator({"PLUS"})
    /\ last.frame.node.variable = X
    /\ last.frame.node.value.op = Token("PLUS", TokenText["PLUS"], 1, 5)
    /\ semStatus = "error"
    /\ semError = SemanticError("TypeMismatch",
                                [left |-> "number", right |-> "string",
                                 line |-> 1, column |-> 5])

\* C13: a BinaryOp with .. whose operands both analyze gives "string" and
\* never a TypeMismatch, whatever the two operand types are; one with == > >=
\* < or <= gives "boolean" in the same way.
C13_ConcatAndComparisonAnyTypes ==
    /\ (LastOperator({"DOTDOT"}) /\ LastLeft.ok /\ LastRight.ok)
          => semStatus # "error" /\ last.returned = "string"
    /\ (LastOperator({"EQUAL_EQUAL", "GREATER", "GREATER_EQUAL", "LESS",
                      "LESS_EQUAL"}) /\ LastLeft.ok /\ LastRight.ok)
          => semStatus # "error" /\ last.returned = "boolean"

\* a boolean .. a value of type "any" has given "string"
C13_Witness ==
    /\ LastOperator({"DOTDOT"})
    /\ LastLeft = SOk("boolean")
    /\ LastRight = SOk("any")
    /\ semStatus # "error"
    /\ last.returned = "string"

\* the tables on the chain of the step just made that declare function name
Declaring(name) ==
    {t \in Chain(last.tables, last.symbol_table) :
        name \in DOMAIN last.tables[t].functions}

\* the one of them that every other is an ancestor of
Nearest(name) ==
    CHOOSE t \in Declaring(name) :
        \A u \in Declaring(name) : u \in Chain(last.tables, t)

\* C14: a Call of a name that no table of the chain declares as a function
\* fails with UndefinedFunction, a variable of that name or not; otherwise it
\* fails with ArityMismatch, stating the expected and the actual count, exactly
\* when the number of arguments differs from the arity of the nearest
\* declaration.  The built-in print has arity 1.
C14_CallLookupAndArity ==
    /\ semStatus # "idle" => tables[1].functions[PrintName][1] = 1
    /\ LastWas({"FunctionCall"}) =>
          /\ Declaring(last.frame.node.name) = {}
                => /\ semStatus = "error"
                   /\ semError = SemanticError("UndefinedFunction",
                                     [name |-> last.frame.node.name])
          /\ (/\ Declaring(last.frame.node.name) # {}
              /\ Len(last.frame.node.arguments)
                    # last.tables[Nearest(last.frame.node.name)]
                         .functions[last.frame.node.name][1])
                => /\ semStatus = "error"
                   /\ semError
                         = SemanticError("ArityMismatch",
                              [name |-> last.frame.node.name,
                               expected |->
                                  last.tables[Nearest(last.frame.node.name)]
                                     .functions[last.frame.node.name][1],
                               got |-> Len(last.frame.node.arguments)])
          /\ (/\ Declaring(last.frame.node.name) # {}
              /\ Len(last.frame.node.arguments)
                    = last.tables[Nearest(last.frame.node.name)]
                         .functions[last.frame.node.name][1])
                => (semStatus = "error"
                       => semError.kind \notin {"UndefinedFunction",
                                                "ArityMismatch"})

\* a call with two arguments fails against the nearest f while a table
\* further out declares an f of another arity
C14_Witness ==
    /\ LastWas({"FunctionCall"})
    /\ Cardinality(Declaring(last.frame.node.name)) = 2
    /\ \E u \in Declaring(last.frame.node.name) :
          last.tables[u].functions[last.frame.node.name][1]
             # last.tables[Nearest(last.frame.node.name)]
                  .functions[last.frame.node.name][1]
    /\ semStatus = "error"
    /\ semError.kind = "ArityMismatch"
    /\ semError.detail.got = 2

\* what the condition of the If or While just analyzed gives in the state
\* the step was made in, with the table that was current then
LastCondition ==
    AnalyzeExpression(last.frame.node.condition, last.tables,
                      last.symbol_table)

\* the blocks of an If or While, in the order of the source
BlocksOf(node) ==
    IF node.kind = "While" THEN <<node.body>>
    ELSE IF node.else_branch = NoNode THEN <<node.then_branch>>
    ELSE <<node.then_branch, node.else_branch>>

\* C15: an If or While analyzes its condition first, in the enclosing scope.
\* A condition of a type other than "boolean" fails with ConditionTypeError
\* before any block is analyzed; with "boolean" the then-branch, the
\* else-branch and the while body are analyzed next, each in a fresh child
\* table of the enclosing one.
C15_ConditionThenBlocks ==
    /\ LastWas({"If", "While"}) =>
          /\ tables = last.tables
          /\ symbol_table = last.symbol_table
          /\ ~LastCondition.ok
                => semStatus = "error" /\ semError = LastCondition.error
          /\ (LastCondition.ok /\ LastCondition.value # "boolean")
                => /\ semStatus = "error"
                   /\ semError = SemanticError("ConditionTypeError",
                                    [construct |-> last.frame.node.kind,
                                     got |-> LastCondition.value])
          /\ semStatus = "error"
                => /\ visited[Len(visited)] = last.frame.node
                   /\ work[Len(work)] = last.frame
          /\ (LastCondition.ok /\ LastCondition.value = "boolean")
                => /\ semStatus # "error"
                   /\ \A i \in 1..Len(BlocksOf(last.frame.node)) :
                         /\ BlocksOf(last.frame.node)[i].kind = "Block"
                         /\ work[Len(work) + 1 - i]
                               = NodeFrame(BlocksOf(last.frame.node)[i])
    /\ LastWas({"Block"}) =>
          /\ symbol_table = Len(last.tables) + 1
          /\ Len(tables) = Len(last.tables) + 1
          /\ tables[symbol_table].parent = last.symbol_table
          /\ DOMAIN tables[symbol_table].variables = {}
          /\ DOMAIN tables[symbol_table].functions = {}
          /\ \A t \in 1..Len(last.tables) : tables[t] = last.tables[t]

\* the else-branch reads y, which the then-branch has assigned, and fails
C15_Witness ==
    /\ LastWas({"FunctionCall"})
    /\ last.frame.node.arguments = <<VariableNode(Y)>>
    /\ \E t \in 1..Len(tables) :
          /\ t \notin Chain(tables, symbol_table)
          /\ tables[t].parent = tables[symbol_table].parent
          /\ Y \in DOMAIN tables[t].variables
    /\ semStatus = "error"
    /\ semError = SemanticError("UndefinedVariable", [name |-> Y])

\* the statements of a tree in the order of the source, each with whether it
\* lies inside the body of a Function
RECURSIVE Walk(_, _), WalkAll(_, _, _)
Walk(node, inside) ==
    <<[node |-> node, inside |-> inside]>>
       \o CASE node.kind = "Block" -> WalkAll(node.statements, 1, inside)
            [] node.kind = "If" ->
                  Walk(node.then_branch, inside)
                     \o IF node.else_branch = NoNode THEN <<>>
                        ELSE Walk(node.else_branch, inside)
            [] node.kind = "While" -> Walk(node.body, inside)
            [] node.kind = "Function" -> Walk(node.body, TRUE)
            [] OTHER -> <<>>

WalkAll(statements, i, inside) ==
    IF i > Len(statements) THEN <<>>
    ELSE Walk(statements[i], inside) \o WalkAll(statements, i + 1, inside)

\* the place in the tree of the node the last call of analyze_node was on
LastPlace == Walk(ast, FALSE)[Len(visited)]

\* C16: a Return passes the function-context check exactly when it lies
\* inside the body of a Function, at any block depth, and fails with
\* ReturnOutsideFunction otherwise; the context is restored when a Function
\* is done, so a Return after a declaration is judged by what encloses it.
C16_ReturnNeedsFunction ==
    LastWas({"Return"}) =>
        /\ Len(visited) <= Len(Walk(ast, FALSE))
        /\ LastPlace.node = last.frame.node
        /\ LastPlace.inside
              <=> ~(/\ semStatus = "error"
                    /\ semError = SemanticError("ReturnOutsideFunction",
                                                [name |-> <<>>]))
        /\ LastPlace.inside <=> last.current_function # NoValue

\* a Return in the body of f, after a function declared in that body is done,
\* has passed
C16_Witness ==
    /\ LastWas({"Return"})
    /\ semStatus # "error"
    /\ last.current_function = F
    /\ Len(visited) > 1
    /\ work # <<>>
    /\ Top.kind = "end_block"
    /\ \E i \in 1..(Len(visited) - 1) :
          /\ visited[i].kind = "Function"
          /\ visited[i].name = Y
          /\ Walk(ast, FALSE)[i].inside

C18_ScopesBalanced ==
    /\ (last.frame.kind \in {"end_block", "end_function"})
          => /\ symbol_table = tables[last.frame.scope].parent
             /\ last.symbol_table \in Chain(tables, last.frame.scope)
             /\ tables = last.tables
    /\ semStatus = "done"
          => /\ symbol_table = 1
             /\ DOMAIN tables[1].variables = {}
             /\ DOMAIN tables[1].functions = {PrintName}
             /\ tables[1].functions[PrintName] = <<1, <<"any">>, NoType>>
    /\ semStatus # "idle"
          => /\ symbol_table \in 1..Len(tables)
             /\ tables[1].parent = NoTable
             /\ \A t \in 2..Len(tables) : tables[t].parent \in 1..(t - 1)
             /\ \A t \in 1..Len(tables) : 1 \in Chain(tables, t)

\* a run has succeeded in which a function with a block in its body was
\* analyzed
C18_Witness ==
    /\ semStatus = "done"
    /\ symbol_table = 1
    /\ \E i \in 1..Len(registered) :
          \E t \in 1..Len(tables) :
             /\ t # registered[i].scope
             /\ tables[t].parent # registered[i].scope
             /\ registered[i].scope \in Chain(tables, t)

\* the tables on the chain of t that declare function name, and the one of
\* them that every other is an ancestor of
DeclaringIn(tabs, t, name) ==
    {u \in Chain(tabs, t) : name \in DOMAIN tabs[u].functions}

NearestIn(tabs, t, name) ==
    CHOOSE u \in DeclaringIn(tabs, t, name) :
        \A v \in DeclaringIn(tabs, t, name) : v \in Chain(tabs, u)

\* the rule violations of an expression in the order of the traversal: the
\* left operand, the right operand, then the operator; the callee, then the
\* number of arguments, then the arguments from left to right
RECURSIVE Violations(_, _, _), ArgumentViolations(_, _, _, _)
Violations(node, tabs, t) ==
    CASE node.kind = "Variable" ->
            IF \E u \in Chain(tabs, t) : node.name \in DOMAIN tabs[u].variables
            THEN <<>>
            ELSE <<SemanticError("UndefinedVariable", [name |-> node.name])>>
      [] node.kind = "BinaryOp" ->
            Violations(node.left, tabs, t) \o Violations(node.right, tabs, t)
               \o IF /\ Violations(node.left, tabs, t) = <<>>
                     /\ Violations(node.right, tabs, t) = <<>>
                     /\ node.op.type \in {"PLUS", "MINUS", "STAR", "SLASH"}
                     /\ <<AnalyzeExpression(node.left, tabs, t).value,
                          AnalyzeExpression(node.right, tabs, t).value>>
                           # <<"number", "number">>
                  THEN <<SemanticError("TypeMismatch",
                            [left |-> AnalyzeExpression(node.left, tabs, t).value,
                             right |-> AnalyzeExpression(node.right, tabs, t).value,
                             line |-> node.op.line,
                             column |-> node.op.column])>>
                  ELSE <<>>
      [] node.kind = "FunctionCall" ->
            IF DeclaringIn(tabs, t, node.name) = {}
            THEN <<SemanticError("UndefinedFunction", [name |-> node.name])>>
            ELSE IF Len(node.arguments)
                       # tabs[NearestIn(tabs, t, node.name)]
                            .functions[node.name][1]
            THEN <<SemanticError("ArityMismatch",
                      [name |-> node.name,
                       expected |-> tabs[NearestIn(tabs, t, node.name)]
                                       .functions[node.name][1],
                       got |-> Len(node.arguments)])>>
            ELSE ArgumentViolations(node.arguments, 1, tabs, t)
      [] OTHER -> <<>>

ArgumentViolations(arguments, i, tabs, t) ==
    IF i > Len(arguments) THEN <<>>
    ELSE Violations(arguments[i], tabs, t)
            \o ArgumentViolations(arguments, i + 1, tabs, t)

\* the expression of the statement the last call of analyze_node was on
LastExpression ==
    CASE last.frame.node.kind = "Assignment" -> last.frame.node.value
      [] last.frame.node.kind \in {"If", "While"} -> last.frame.node.condition
      [] last.frame.node.kind = "Return" ->
            IF last.current_function = NoValue THEN NoNode
            ELSE last.frame.node.value
      [] OTHER -> last.frame.node

\* C19: the analysis stops at the first violation in the order of the source:
\* the nodes are analyzed in that order and none after the failing one; an
\* expression reports the first of its violations, those of a BinaryOp being
\* ordered left operand, right operand, operator, and those of a Call callee,
\* argument count, arguments; a Function reports nothing but a violation of
\* its own declaration or of the statement its body starts with.
C19_FirstViolationInOrder ==
    /\ semStatus # "idle" =>
          /\ Len(visited) <= Len(Walk(ast, FALSE))
          /\ \A i \in 1..Len(visited) : visited[i] = Walk(ast, FALSE)[i].node
    /\ semStatus = "error" =>
          /\ last.frame = work[Len(work)]
          /\ last.frame.kind = "node"
          /\ last.frame.node = visited[Len(visited)]
    /\ LastWas(ExpressionKinds \cup {"Assignment", "If", "While", "Return"}) =>
          /\ Violations(LastExpression, last.tables, last.symbol_table) # <<>>
                => /\ semStatus = "error"
                   /\ semError = Violations(LastExpression, last.tables,
                                            last.symbol_table)[1]
          /\ (/\ Violations(LastExpression, last.tables, last.symbol_table)
                    = <<>>
              /\ semStatus = "error")
                => semError.kind \in {"ConditionTypeError",
                                      "ReturnOutsideFunction"}
    /\ (LastWas({"Function"}) /\ semStatus = "error") =>
          \/ semError.kind = "DuplicateDeclaration"
          \/ /\ last.frame.node.body.statements # <<>>
             /\ last.frame.node.body.statements[1].kind = "Return"
             /\ Violations(last.frame.node.body.statements[1].value, tables,
                           symbol_table) # <<>>
             /\ semError = Violations(last.frame.node.body.statements[1].value,
                                      tables, symbol_table)[1]

\* C20: a function whose body has no violation when its statements are
\* analyzed in order, with the parameters declared, passes; so when the body
\* starts with an assignment whose value has no violation, the function does
\* not fail with the assigned name undefined, as in
\* function f() local x = 1 return x end.
C20_BodyDeclarationsReachReturns ==
    (/\ LastWas({"Function"})
     /\ last.frame.node.body.statements # <<>>
     /\ last.frame.node.body.statements[1].kind = "Assignment"
     /\ Violations(last.frame.node.body.statements[1].value, tables,
                   symbol_table) = <<>>)
        => ~(/\ semStatus = "error"
             /\ semError
                   = SemanticError("UndefinedVariable",
                        [name |-> last.frame.node.body.statements[1].variable]))

(***************************************************************************)
(* Specifications: one per component, the others parked                    *)
(***************************************************************************)
LexSpecInit == LexInit /\ ParseIdle /\ SemIdle

LexSpec == LexSpecInit /\ [][LexNext]_vars

ParseSpecInit == LexIdle /\ ParseInit /\ SemIdle

ParseSpec == ParseSpecInit /\ [][ParseNext]_vars

\* parse runs to its end: a loop of the interpreter takes its next turn
ParseFairSpec == ParseSpecInit /\ [][ParseNext]_vars /\ WF_vars(ParseNext)

SemSpecInit == LexIdle /\ ParseIdle /\ SemInit

SemSpec == SemSpecInit /\ [][SemNext]_vars

TypeSpecInit == LexIdle /\ ParseIdle /\ TypeInit

TypeSpec == TypeSpecInit /\ [][SemNext]_vars

RerunNext == SemNext \/ AnalyzeAgain

RerunSpecInit == LexIdle /\ ParseIdle /\ RerunInit

RerunSpec == RerunSpecInit /\ [][RerunNext]_vars

(***************************************************************************)
(* Lexer claims                                                            *)
(***************************************************************************)
\* the 1-based line of the character at 0-based index p of src
LineOf(src, p) == 1 + Cardinality({j \in 1..p : src[j] = NL})

\* the 1-based column of the character at 0-based index p of src
ColumnOf(src, p) ==
    LET nls == {j \in 1..p : src[j] = NL}
    IN  IF nls = {} THEN p + 1
        ELSE p + 1 - (CHOOSE j \in nls : \A k \in nls : k <= j)

\* C1: for every source, tokenization ends with a token list (it does not
\* raise), and the list ends with exactly one EOF token: the last token is
\* EOF and no earlier one is.
C1_EndsWithOneEOF ==
    /\ lexStatus # "raised"
    /\ lexStatus = "done" =>
         /\ tokens # <<>>
         /\ tokens[Len(tokens)].type = "EOF"
         /\ \A i \in 1..(Len(tokens) - 1) : tokens[i].type # "EOF"

\* C2: every non-EOF token carries the 1-based line and column of its first
\* character in the source.
C2_TokenPositionsExact ==
    \A i \in 1..Len(tokens) :
        tokens[i].type # "EOF" =>
            /\ tokens[i].line = LineOf(source, tokStart[i])
            /\ tokens[i].column = ColumnOf(source, tokStart[i])

\* C3: a lexical fault never aborts tokenization: no token starts at the
\* place of a reported fault, after an unexpected character scanning resumes
\* at the next character, tokens are emitted in source order, and a run
\* that reported a fault does not raise.
C3_FaultsDoNotAbort ==
    /\ diagnostics # <<>> => lexStatus # "raised"
    /\ \A d \in 1..Len(diagStart) : \A i \in 1..Len(tokStart) :
           tokens[i].type # "EOF" => tokStart[i] # diagStart[d]
    /\ \A i, j \in 1..Len(tokStart) :
           i < j /\ tokens[j].type # "EOF" => tokStart[i] < tokStart[j]
    /\ (/\ diagnostics # <<>>
        /\ diagStart[Len(diagStart)] = start
        /\ diagnostics[Len(diagnostics)].kind = "Unexpected character")
           => current = start + 1

====
